---- MODULE Spec2Model ----
(***************************************************************************)
(* A model of the dialectic-pr review pipeline: the exclude filter, the    *)
(* file prioritizer and token packer, the strategy selector, the PR        *)
(* analyzer, the consensus engine and the `review` command of the CLI.     *)
(*                                                                         *)
(* Strings.  A file path is a sequence of segments (the text between       *)
(* slashes), each segment a sequence of parts (the text between dots):     *)
(* "src/users/users.test.ts" is                                            *)
(*   << <<"src">>, <<"users">>, <<"users","test","ts">> >>                 *)
(* and ".env" is << <<"", "env">> >>.  Regular expressions, globs and      *)
(* substring tests of the source are evaluated on that structure; the      *)
(* parts are drawn from a vocabulary in which no part is a proper prefix   *)
(* or suffix of a part named by a pattern, so that a test on whole parts   *)
(* is the test on characters.  Any other text (a patch, a diff block) is   *)
(* a record of its identity and its length.                                *)
(***************************************************************************)
EXTENDS Integers, Sequences, FiniteSets, TLC

----------------------------------------------------------------------------
(* Generic helpers *)

Last(s) == s[Len(s)]

Base(p) == p[Len(p)]

RECURSIVE SeqSum(_)
SeqSum(s) == IF s = << >> THEN 0 ELSE Head(s) + SeqSum(Tail(s))

Range(s) == { s[i] : i \in 1..Len(s) }

\* the sequences over S of length <= n in which no element occurs twice
InjSeqs(S, n) ==
    UNION { { s \in [1..k -> S] : \A i, j \in 1..k : s[i] = s[j] => i = j } : k \in 0..n }

\* every sequence over S of length <= n
SeqsUpTo(S, n) == UNION { [1..k -> S] : k \in 0..n }

----------------------------------------------------------------------------
(* Tests on paths *)

\* filePath.endsWith("." + e) for some e in exts;  /\.(e1|e2)$/
HasExt(p, exts) ==
    Len(Base(p)) >= 2 /\ Last(Base(p)) \in exts

\* /\.(m1|m2)\.(e1|e2)$/
HasDoubleExt(p, mids, exts) ==
    /\ Len(Base(p)) >= 3
    /\ Last(Base(p)) \in exts
    /\ Base(p)[Len(Base(p)) - 1] \in mids

\* filePath.includes("." + part + ".")
IncludesDotted(p, part) ==
    \E i \in 1..Len(p) : \E k \in 2..(Len(p[i]) - 1) : p[i][k] = part

\* filePath.includes("/" + dir + "/");  /\/(d1|d2)\//
IncludesDir(p, dirs) ==
    \E i \in 2..(Len(p) - 1) : Len(p[i]) = 1 /\ p[i][1] \in dirs

\* filePath.includes(a + "." + b), a and b free of dots and slashes
IncludesPair(p, a, b) ==
    \E i \in 1..Len(p) : \E k \in 1..(Len(p[i]) - 1) :
        p[i][k] = a /\ p[i][k + 1] = b

\* /first\/(d1|d2)\//
MatchesDirPair(p, first, dirs) ==
    \E i \in 1..(Len(p) - 2) :
        /\ Last(p[i]) = first
        /\ Len(p[i + 1]) = 1 /\ p[i + 1][1] \in dirs

\* /first\/.*\.(e1|e2)$/
MatchesUnderDir(p, first, exts) ==
    /\ \E i \in 1..(Len(p) - 1) : Last(p[i]) = first
    /\ HasExt(p, exts)

\* filePath.includes(token), token free of dots and slashes
IncludesPart(p, token) ==
    \E i \in 1..Len(p) : \E k \in 1..Len(p[i]) : p[i][k] = token

----------------------------------------------------------------------------
(* ExcludeFilter *)

GlobDir(name) == [glob |-> "dir", parts |-> name]
GlobSuffix(parts) == [glob |-> "base_suffix", parts |-> parts]
GlobPrefix(parts) == [glob |-> "base_prefix", parts |-> parts]
GlobExact(parts) == [glob |-> "base_exact", parts |-> parts]

\* minimatch(filePath, pattern, { dot: true }) for the four glob shapes the
\* exclude lists use: "**/name/**", "**/*.suffix", "**/prefix*", "**/name"
minimatch(p, pattern) ==
    CASE pattern.glob = "dir" ->
            \E i \in 1..(Len(p) - 1) : p[i] = pattern.parts
      [] pattern.glob = "base_suffix" ->
            /\ Len(Base(p)) >= Len(pattern.parts) + 1
            /\ SubSeq(Base(p), Len(Base(p)) - Len(pattern.parts) + 1, Len(Base(p)))
                  = pattern.parts
      [] pattern.glob = "base_prefix" ->
            /\ Len(Base(p)) >= Len(pattern.parts)
            /\ SubSeq(Base(p), 1, Len(pattern.parts)) = pattern.parts
      [] pattern.glob = "base_exact" ->
            Base(p) = pattern.parts

defaultExcludes ==
    << GlobPrefix(<<"", "env">>),            \* "**/.env*"
       GlobDir(<<"secrets">>),               \* "**/secrets/**"
       GlobSuffix(<<"pem">>),
       GlobSuffix(<<"key">>),
       GlobSuffix(<<"p12">>),
       GlobSuffix(<<"pfx">>),
       GlobPrefix(<<"id_rsa">>),
       GlobExact(<<"package-lock", "json">>),
       GlobExact(<<"yarn", "lock">>),
       GlobExact(<<"pnpm-lock", "yaml">>),
       GlobExact(<<"bun", "lockb">>),
       GlobSuffix(<<"min", "js">>),
       GlobSuffix(<<"min", "css">>),
       GlobSuffix(<<"bundle", "js">>),
       GlobDir(<<"dist">>),
       GlobDir(<<"build">>),
       GlobDir(<<"", "next">>),
       GlobDir(<<"", "nuxt">>),
       GlobDir(<<"node_modules">>),
       GlobSuffix(<<"svg">>),
       GlobSuffix(<<"png">>),
       GlobSuffix(<<"jpg">>),
       GlobSuffix(<<"jpeg">>),
       GlobSuffix(<<"gif">>),
       GlobSuffix(<<"ico">>),
       GlobSuffix(<<"woff">>),
       GlobSuffix(<<"woff2">>),
       GlobSuffix(<<"ttf">>),
       GlobSuffix(<<"eot">>),
       GlobSuffix(<<"generated", "ts">>),
       GlobSuffix(<<"generated", "js">>),
       GlobDir(<<"generated">>),
       GlobDir(<<"__generated__">>),
       GlobExact(<<"", "DS_Store">>),
       GlobExact(<<"Thumbs", "db">>) >>

\* constructor: this.allExcludes = [...defaultExcludes, ...customExcludes]
allExcludes(customExcludes) == defaultExcludes \o customExcludes

shouldExclude(customExcludes, filePath) ==
    \E i \in 1..Len(allExcludes(customExcludes)) :
        minimatch(filePath, allExcludes(customExcludes)[i])

getExcludedFiles(customExcludes, paths) ==
    SelectSeq(paths, LAMBDA f : shouldExclude(customExcludes, f))

isSourceFile(filePath) ==
    HasExt(filePath, {"ts", "tsx", "js", "jsx", "mjs", "cjs"})

isTestFile(filePath) ==
    \/ IncludesDotted(filePath, "test")
    \/ IncludesDotted(filePath, "spec")
    \/ IncludesDir(filePath, {"__tests__"})
    \/ IncludesDir(filePath, {"tests"})

isConfigFile(filePath) ==
    \/ HasExt(filePath, {"json", "yaml", "yml", "toml", "ini"})
    \/ IncludesPair(filePath, "package", "json")
    \/ IncludesPair(filePath, "tsconfig", "json")
    \/ IncludesPair(filePath, "jest", "config")
    \/ IncludesPair(filePath, "vite", "config")
    \/ IncludesPair(filePath, "next", "config")
    \/ IncludesPair(filePath, "nest-cli", "json")

----------------------------------------------------------------------------
(* MetricsCalculator *)

\* a text known by its identity and its length (String.length)
Text(tag, length) == [tag |-> tag, length |-> length]

EmptyText == Text("", 0)

\* Math.floor(text.length / 4)
estimateTokens_floor(text) == text.length \div 4

\* Math.ceil(text.length / 4)
estimateTokens(text) == (text.length + 3) \div 4

----------------------------------------------------------------------------
(* SmartFilter *)

RxDirPair(first, dirs) == [type |-> "regex", form |-> "dirpair", first |-> first, names |-> dirs]
RxUnderDir(first, exts) == [type |-> "regex", form |-> "underdir", first |-> first, names |-> exts]
RxDoubleExt(mids, exts) == [type |-> "regex", form |-> "doubleext", mids |-> mids, names |-> exts]
RxExt(exts) == [type |-> "regex", form |-> "ext", names |-> exts]
StringPattern(token) == [type |-> "string", token |-> token]

CodeExts == {"ts", "tsx", "js", "jsx", "py", "java", "go"}

defaultPriorityRules ==
    << [pattern |-> RxDirPair("src", {"auth", "payments", "billing", "security"}),
        priority |-> "critical", reason |-> "Security-critical module"],
       [pattern |-> RxDirPair("src", {"core"}),
        priority |-> "critical", reason |-> "Core business logic"],
       [pattern |-> RxDoubleExt({"controller", "guard", "middleware"}, {"ts"}),
        priority |-> "critical", reason |-> "HTTP security layer"],
       [pattern |-> RxUnderDir("src", CodeExts),
        priority |-> "high", reason |-> "Source code"],
       [pattern |-> RxDoubleExt({"service", "repository", "handler"}, {"ts", "js"}),
        priority |-> "high", reason |-> "Business layer"],
       [pattern |-> RxDoubleExt({"entity"}, {"ts"}),
        priority |-> "high", reason |-> "Database schema"],
       [pattern |-> RxExt(CodeExts),
        priority |-> "normal", reason |-> "Code file"],
       [pattern |-> RxDoubleExt({"test"}, {"ts", "tsx", "js", "jsx"}),
        priority |-> "low", reason |-> "Test file"],
       [pattern |-> RxDoubleExt({"spec"}, {"ts", "tsx", "js", "jsx"}),
        priority |-> "low", reason |-> "Spec file"],
       [pattern |-> RxExt({"md", "txt", "json", "yaml", "yml"}),
        priority |-> "low", reason |-> "Config/Doc file"] >>

\* /token/g, a regular expression with the global flag: it keeps the index
\* its next test starts from
RxGlobal(token) == [type |-> "regex", form |-> "global", token |-> token, lastIndex |-> 0]

\* the length of a path segment as text, its parts joined by dots
SegmentLength(segment) ==
    SeqSum([ k \in 1..Len(segment) |-> Len(segment[k]) ]) + Len(segment) - 1

\* the index in the path's text at which part k of segment i starts
PartIndex(p, i, k) ==
    SeqSum([ j \in 1..(i - 1) |-> SegmentLength(p[j]) + 1 ])
      + SeqSum([ j \in 1..(k - 1) |-> Len(p[i][j]) + 1 ])

\* pattern.test(filePath) for the regular expressions without flags
RegExpTest(pattern, filePath) ==
    CASE pattern.form = "dirpair" -> MatchesDirPair(filePath, pattern.first, pattern.names)
      [] pattern.form = "underdir" -> MatchesUnderDir(filePath, pattern.first, pattern.names)
      [] pattern.form = "doubleext" -> HasDoubleExt(filePath, pattern.mids, pattern.names)
      [] pattern.form = "ext" -> HasExt(filePath, pattern.names)

\* pattern.test(filePath) for /token/g: the search starts at lastIndex; a
\* match leaves lastIndex behind the match, a failure resets it to 0
RegExpTestGlobal(pattern, filePath) ==
    LET parts == UNION { { <<i, k>> : k \in 1..Len(filePath[i]) } : i \in 1..Len(filePath) }
        ends == { PartIndex(filePath, at[1], at[2]) + Len(pattern.token) :
                    at \in { at \in parts :
                               /\ filePath[at[1]][at[2]] = pattern.token
                               /\ PartIndex(filePath, at[1], at[2]) >= pattern.lastIndex } }
    IN  IF ends = {}
        THEN [found |-> FALSE, pattern |-> [pattern EXCEPT !.lastIndex = 0]]
        ELSE [found |-> TRUE,
              pattern |-> [pattern EXCEPT !.lastIndex =
                              CHOOSE e \in ends : \A other \in ends : e <= other]]

\* whether the pattern matches, and the pattern as the test leaves it
matchesPattern(filePath, pattern) ==
    IF pattern.type = "string"
    THEN [found |-> IncludesPart(filePath, pattern.token), pattern |-> pattern]
    ELSE IF pattern.form = "global"
         THEN RegExpTestGlobal(pattern, filePath)
         ELSE [found |-> RegExpTest(pattern, filePath), pattern |-> pattern]

\* Op of the value, the value worked out once before Op uses it
With(value, Op(_)) == CHOOSE out \in { Op(once) : once \in {value} } : TRUE

\* the loop of determinePriority and getPriorityReason from rule i on: the
\* index of the first rule whose test succeeds, 0 when none does, and the
\* rules as the tests leave them
RECURSIVE FirstMatchFrom(_, _, _)
FirstMatchFrom(filePath, rules, i) ==
    IF i > Len(rules) THEN [index |-> 0, rules |-> rules]
    ELSE With(matchesPattern(filePath, rules[i].pattern),
              LAMBDA m :
                With([rules EXCEPT ![i].pattern = m.pattern],
                     LAMBDA tested :
                       IF m.found THEN [index |-> i, rules |-> tested]
                       ELSE FirstMatchFrom(filePath, tested, i + 1)))

determinePriority(filePath, rules) ==
    With(FirstMatchFrom(filePath, rules, 1),
         LAMBDA first :
           [ value |-> IF first.index = 0 THEN "low" ELSE rules[first.index].priority,
             rules |-> first.rules ])

getPriorityReason(filePath, rules) ==
    With(FirstMatchFrom(filePath, rules, 1),
         LAMBDA first :
           [ value |-> IF first.index = 0 THEN "Unknown file type"
                       ELSE rules[first.index].reason,
             rules |-> first.rules ])

priorityOrder(priority) ==
    CASE priority = "critical" -> 0
      [] priority = "high" -> 1
      [] priority = "normal" -> 2
      [] priority = "low" -> 3

\* insertion before the elements that compare equal: a sort that is not stable
InsertSorted_beforeEqual(sorted, x) ==
    LET k == Cardinality({ i \in 1..Len(sorted) :
                  priorityOrder(sorted[i].priority) < priorityOrder(x.priority) })
    IN  SubSeq(sorted, 1, k) \o << x >> \o SubSeq(sorted, k + 1, Len(sorted))

\* Array.prototype.sort with the comparator of prioritizeFiles: a stable sort,
\* here by insertion of each element after those that do not compare greater
InsertSorted(sorted, x) ==
    LET k == Cardinality({ i \in 1..Len(sorted) :
                  priorityOrder(sorted[i].priority) <= priorityOrder(x.priority) })
    IN  SubSeq(sorted, 1, k) \o << x >> \o SubSeq(sorted, k + 1, Len(sorted))

RECURSIVE SortByPriority(_)
SortByPriority(s) ==
    IF s = << >> THEN << >>
    ELSE InsertSorted(SortByPriority(SubSeq(s, 1, Len(s) - 1)), Last(s))

\* files.map(...) of prioritizeFiles from file i on: each file's priority is
\* determined, then its reason
RECURSIVE MapFilesFrom(_, _, _, _)
MapFilesFrom(files, rules, i, mapped) ==
    IF i > Len(files) THEN [files |-> mapped, rules |-> rules]
    ELSE With(determinePriority(files[i].path, rules),
              LAMBDA priority :
                With(getPriorityReason(files[i].path, priority.rules),
                     LAMBDA reason :
                       With(Append(mapped, [ path |-> files[i].path,
                                             content |-> files[i].content,
                                             priority |-> priority.value,
                                             reason |-> reason.value ]),
                            LAMBDA next : MapFilesFrom(files, reason.rules, i + 1, next))))

\* prioritizeFiles of a filter with these custom rules: the files it returns,
\* and the custom rules as the call leaves them
prioritizeFilesFrom(customRules, files) ==
    With(MapFilesFrom(files, defaultPriorityRules \o customRules, 1, << >>),
         LAMBDA mapped :
           [ files |-> SortByPriority(mapped.files),
             customRules |-> SubSeq(mapped.rules, Len(defaultPriorityRules) + 1,
                                    Len(mapped.rules)) ])

prioritizeFiles(customRules, files) == prioritizeFilesFrom(customRules, files).files

\* the test of the packing loop: the file is included when it still fits
fits_ignoringFile(currentTokens, fileTokens, tokenLimit) ==
    currentTokens <= tokenLimit

fits(currentTokens, fileTokens, tokenLimit) ==
    currentTokens + fileTokens <= tokenLimit

\* a loop that ends at the first file over the limit and leaves out the rest
RECURSIVE TruncateLoop_stopsAtOverflow(_, _, _, _, _)
TruncateLoop_stopsAtOverflow(files, tokenLimit, included, excluded, currentTokens) ==
    IF files = << >>
    THEN [included |-> included, excluded |-> excluded]
    ELSE IF fits(currentTokens, estimateTokens(Head(files).content), tokenLimit)
         THEN TruncateLoop_stopsAtOverflow(Tail(files), tokenLimit,
                  Append(included, Head(files)), excluded,
                  currentTokens + estimateTokens(Head(files).content))
         ELSE [included |-> included, excluded |-> excluded \o files]

RECURSIVE TruncateLoop(_, _, _, _, _)
TruncateLoop(files, tokenLimit, included, excluded, currentTokens) ==
    IF files = << >>
    THEN [included |-> included, excluded |-> excluded]
    ELSE LET file == Head(files)
             fileTokens == estimateTokens(file.content)
         IN  IF fits(currentTokens, fileTokens, tokenLimit)
             THEN TruncateLoop(Tail(files), tokenLimit, Append(included, file),
                               excluded, currentTokens + fileTokens)
             ELSE TruncateLoop(Tail(files), tokenLimit, included,
                               Append(excluded, file), currentTokens)

truncateToTokenLimit(prioritizedFiles, tokenLimit) ==
    TruncateLoop(prioritizedFiles, tokenLimit, << >>, << >>, 0)

----------------------------------------------------------------------------
(* StrategySelector *)

StrategyNames == {"small", "medium", "large", "xlarge", "skip"}

DefaultStrategies ==
    [ small |-> [name |-> "small", maxTokens |-> 16000, contextTokenBudget |-> 4000,
                 instructions |-> "Comprehensive review of all changes with detailed feedback."],
      medium |-> [name |-> "medium", maxTokens |-> 12000, contextTokenBudget |-> 3000,
                  instructions |-> "Focus on critical issues and potential bugs. Skip minor style suggestions."],
      large |-> [name |-> "large", maxTokens |-> 8000, contextTokenBudget |-> 2000,
                 instructions |-> "Focus only on critical security and bug issues. No style or minor suggestions."],
      xlarge |-> [name |-> "xlarge", maxTokens |-> 4000, contextTokenBudget |-> 1000,
                  instructions |-> "Critical security issues only. Very large PR - recommend splitting."],
      skip |-> [name |-> "skip", maxTokens |-> 0, contextTokenBudget |-> 0,
                instructions |-> "PR is too large for meaningful review. Please split into smaller PRs."] ]

ConfigOnlyInstructions == "Quick review of configuration changes only."

\* the if-chain of select over diffSize: the name of the tier chosen by size
sizeTier_inclusive(diffSize) ==
    IF diffSize <= 51200 THEN "small"
    ELSE IF diffSize <= 153600 THEN "medium"
    ELSE IF diffSize <= 204800 THEN "large"
    ELSE IF diffSize <= 819200 THEN "xlarge"
    ELSE "skip"

sizeTier(diffSize) ==
    IF diffSize < 51200 THEN "small"
    ELSE IF diffSize < 153600 THEN "medium"
    ELSE IF diffSize < 204800 THEN "large"
    ELSE IF diffSize < 819200 THEN "xlarge"
    ELSE "skip"

\* Math.floor(n * 1.5), n a non-negative integer
CeilTimes1_5(n) == (n * 3 + 1) \div 2

FloorTimes1_5(n) == (n * 3) \div 2

\* select(analysis), reading analysis.metrics.diffSize and analysis.context.flags
select_boostsConfigOnly(strats, diffSize, criticalModule, configOnly) ==
    LET strategy == IF configOnly
                    THEN [strats.small EXCEPT !.instructions = ConfigOnlyInstructions]
                    ELSE strats[sizeTier(diffSize)]
    IN  IF criticalModule
        THEN [strategy EXCEPT
                !.maxTokens = FloorTimes1_5(strategy.maxTokens),
                !.contextTokenBudget = FloorTimes1_5(strategy.contextTokenBudget)]
        ELSE strategy

select(strats, diffSize, criticalModule, configOnly) ==
    IF configOnly
    THEN [strats.small EXCEPT !.instructions = ConfigOnlyInstructions]
    ELSE LET strategy == strats[sizeTier(diffSize)]
         IN  IF criticalModule
             THEN [strategy EXCEPT
                     !.maxTokens = FloorTimes1_5(strategy.maxTokens),
                     !.contextTokenBudget = FloorTimes1_5(strategy.contextTokenBudget)]
             ELSE strategy

\* setCustomStrategy(name, strategy): the given fields override the stored
\* ones, the name stays
setCustomStrategy_takesName(strats, name, override) ==
    [strats EXCEPT ![name] =
        [ f \in DOMAIN strats[name] |->
            IF f \in DOMAIN override THEN override[f] ELSE strats[name][f] ] ]

setCustomStrategy(strats, name, override) ==
    [strats EXCEPT ![name] =
        [ f \in DOMAIN strats[name] |->
            IF f = "name" THEN name
            ELSE IF f \in DOMAIN override THEN override[f]
            ELSE strats[name][f] ] ]

----------------------------------------------------------------------------
(* PRAnalyzer *)

FrameworkNames == {"nestjs", "nextjs", "react", "express", "vanilla"}

\* filePath.includes("." + a + "." + b)
IncludesDotPair(p, a, b) ==
    \E i \in 1..Len(p) : \E k \in 2..(Len(p[i]) - 1) :
        p[i][k] = a /\ p[i][k + 1] = b

\* A diff is the sequence of its "diff --git " blocks; a block is known by the
\* path of its "a/<path> b/<path>" header, by the byte length of its text after
\* the "diff --git " separator, and by the secret pattern its text matches.
DiffBlock(path, bytes, secret) == [path |-> path, bytes |-> bytes, secret |-> secret]

filterFiles_keepAll(customExcludes, files) ==
    files

filterFiles(customExcludes, files) ==
    SelectSeq(files, LAMBDA f : ~shouldExclude(customExcludes, f.path))

extractRelevantDiff(diff, files) ==
    LET sourcePaths == { files[i].path : i \in { j \in 1..Len(files) : isSourceFile(files[j].path) } }
    IN  SelectSeq(diff, LAMBDA block : block.path \in sourcePaths)

\* Buffer.byteLength of the kept blocks, each behind its 11-byte "diff --git "
\* separator, joined by "\n"
ByteLength(relevantDiff) ==
    SeqSum([ i \in 1..Len(relevantDiff) |-> 11 + relevantDiff[i].bytes ])
        + (IF Len(relevantDiff) > 0 THEN Len(relevantDiff) - 1 ELSE 0)

\* MetricsCalculator.calculate, the fields the pipeline reads
calculate(relevantDiff, paths) ==
    [ fileCount |-> Len(paths), diffSize |-> ByteLength(relevantDiff) ]

\* the text of buildPrioritizedDiff, as the sequence of its per-file sections
buildPrioritizedDiff(files) ==
    [ i \in 1..Len(files) |->
        [ file |-> files[i].path, priority |-> files[i].priority,
          reason |-> files[i].reason, content |-> files[i].content ] ]

CriticalDirs == {"auth", "payments", "billing", "security"}

detectContextFlags(files, frameworkName) ==
    LET paths == [ i \in 1..Len(files) |-> files[i].path ]
        some(P(_)) == \E i \in 1..Len(paths) : P(paths[i])
        every(P(_)) == \A i \in 1..Len(paths) : P(paths[i])
    IN  [ testChanged |-> some(isTestFile),
          schemaChanged |-> some(LAMBDA q : HasDoubleExt(q, {"entity", "schema", "model"}, {"ts", "js"})),
          apiRoutesChanged |-> frameworkName = "nextjs" /\ some(LAMBDA q : IncludesDir(q, {"api"})),
          controllersChanged |-> frameworkName = "nestjs" /\ some(LAMBDA q : IncludesDotPair(q, "controller", "ts")),
          criticalModule |-> some(LAMBDA q : IncludesDir(q, CriticalDirs)),
          configOnly |-> every(isConfigFile) ]

detectAffectedAreas(paths, frameworkName) ==
    LET some(P(_)) == \E i \in 1..Len(paths) : P(paths[i])
        area(cond, name) == IF cond THEN << name >> ELSE << >>
    IN  area(some(LAMBDA q : IncludesDir(q, {"auth"})), "Auth")
        \o area(some(LAMBDA q : IncludesDir(q, {"payments"})), "Payments")
        \o area(some(LAMBDA q : IncludesDir(q, {"billing"})), "Billing")
        \o (CASE frameworkName = "nestjs" ->
                    area(some(LAMBDA q : HasDoubleExt(q, {"controller", "guard", "interceptor"}, {"ts"})), "HTTP Layer")
                    \o area(some(LAMBDA q : HasDoubleExt(q, {"service", "repository"}, {"ts"})), "Business Logic")
                    \o area(some(LAMBDA q : IncludesDotPair(q, "entity", "ts")), "Database Schema")
              [] frameworkName = "nextjs" ->
                    area(some(LAMBDA q : IncludesDir(q, {"api"})), "API Routes")
                    \o area(some(LAMBDA q : IncludesPair(q, "page", "tsx")), "Pages")
                    \o area(some(LAMBDA q : IncludesPair(q, "layout", "tsx")), "Layouts")
              [] frameworkName = "react" ->
                    area(some(LAMBDA q : IncludesDir(q, {"components"})), "Components")
                    \o area(some(LAMBDA q : IncludesDir(q, {"hooks"})), "Hooks")
                    \o area(some(LAMBDA q : IncludesDir(q, {"store", "redux"})), "State Management")
              [] OTHER -> << >>)
        \o area(some(isTestFile), "Tests")

\* analyze(diff, files, prInfo, repoPath); framework is what
\* frameworkDetector.detect resolved with
analyze(customExcludes, customRules, framework, diff, files) ==
    LET filteredFiles == filterFiles(customExcludes, files)
        filteredPaths == [ i \in 1..Len(filteredFiles) |-> filteredFiles[i].path ]
        relevantDiff == extractRelevantDiff(diff, filteredFiles)
        prioritizedFiles == prioritizeFiles(customRules, filteredFiles)
    IN  [ diff |-> diff,
          relevantDiff |-> relevantDiff,
          prioritizedDiff |-> buildPrioritizedDiff(prioritizedFiles),
          metrics |-> calculate(relevantDiff, filteredPaths),
          context |-> [ framework |-> framework,
                        affectedAreas |-> detectAffectedAreas(filteredPaths, framework),
                        flags |-> detectContextFlags(filteredFiles, framework) ],
          changedFiles |-> filteredPaths,
          prioritizedFiles |-> prioritizedFiles,
          excludedFiles |-> getExcludedFiles(customExcludes,
                                [ i \in 1..Len(files) |-> files[i].path ]) ]

----------------------------------------------------------------------------
(* JSON values, as JSON.parse returns them and as JavaScript reads them *)

JUndefined == [t |-> "undefined"]
JNull == [t |-> "null"]
JString(str) == [t |-> "string", v |-> str]
JNumber(n) == [t |-> "number", v |-> n]
JArray(elems) == [t |-> "array", v |-> elems]
JObject(fields) == [t |-> "object", v |-> fields]

\* the value is truthy: !value is false
Truthy(j) ==
    CASE j.t \in {"undefined", "null"} -> FALSE
      [] j.t = "string" -> j.v # ""
      [] j.t = "number" -> j.v # 0
      [] OTHER -> TRUE

\* value.field, for a value that is neither null nor undefined
Member(j, field) ==
    IF j.t = "object" /\ field \in DOMAIN j.v THEN j.v[field] ELSE JUndefined

\* a || b
Or(a, b) == IF Truthy(a) THEN a ELSE b

\* A response text: a JSON document, bare ("plain"), inside a ``` code block
\* ("fenced"), or bare with prose around it ("prose"); json.t = "invalid" is a
\* text that is no JSON document.
ResponseText(layout, json) == [layout |-> layout, json |-> json]

JInvalid == [t |-> "invalid"]

----------------------------------------------------------------------------
(* ConsensusEngine *)

ParseFailureLabel == "Failed to parse review response"

FailedParse ==
    [ issues |-> << >>,
      consensus |-> JObject([ totalReviewed |-> JNumber(0), issuesRaised |-> JNumber(0),
                              issuesFiltered |-> JNumber(0),
                              overallAssessment |-> JString(ParseFailureLabel) ]) ]

\* the map callback of parseReviewResponse
normalizeIssue(issue) ==
    [ file |-> Or(Member(issue, "file"), JString("unknown")),
      line |-> Member(issue, "line"),
      type |-> Or(Member(issue, "type"), JString("maintainability")),
      confidence |-> Or(Member(issue, "confidence"), JString("medium")),
      title |-> Or(Member(issue, "title"), JString("Issue")),
      description |-> Or(Member(issue, "description"), JString("")),
      suggestion |-> Member(issue, "suggestion") ]

parseReviewResponse(responseText) ==
    LET \* the code block's content when there is one, else the whole text
        jsonTextParses == responseText.layout # "prose" /\ responseText.json.t # "invalid"
        parsed == responseText.json
        rawIssues == Member(parsed, "issues")
    IN  IF ~jsonTextParses THEN FailedParse                   \* JSON.parse throws
        ELSE IF parsed.t = "null" THEN FailedParse            \* parsed.issues throws
        ELSE IF ~Truthy(rawIssues) \/ rawIssues.t # "array" THEN FailedParse
        ELSE IF \E i \in 1..Len(rawIssues.v) : rawIssues.v[i].t = "null"
             THEN FailedParse                                 \* issue.file throws
        ELSE LET issues == [ i \in 1..Len(rawIssues.v) |-> normalizeIssue(rawIssues.v[i]) ]
             IN  [ issues |-> issues,
                   consensus |->
                     Or(Member(parsed, "consensus"),
                        JObject([ totalReviewed |-> JNumber(0),
                                  issuesRaised |-> JNumber(Len(issues)),
                                  issuesFiltered |-> JNumber(0),
                                  overallAssessment |->
                                     JString(IF Len(issues) > 0 THEN "Issues found"
                                             ELSE "No issues found") ])) ]

\* a filter that counts the security issues only
IsCriticalIssue_securityOnly(issue) == issue.type = JString("security")

IsCriticalIssue(issue) ==
    issue.type = JString("security") \/ issue.type = JString("bug")

\* the condition under which generateSummary writes its own assessment
replacesAssessment(overallAssessment) ==
    ~Truthy(overallAssessment) \/ overallAssessment = JString(ParseFailureLabel)

generateSummary(issues, analysis, consensus) ==
    LET criticalIssues == Cardinality({ i \in 1..Len(issues) : IsCriticalIssue(issues[i]) })
        given == Member(consensus, "overallAssessment")
    IN  [ totalIssues |-> Len(issues),
          criticalIssues |-> criticalIssues,
          affectedAreas |-> analysis.context.affectedAreas,
          overallAssessment |->
            IF replacesAssessment(given)
            THEN IF Len(issues) = 0
                 THEN JString("No significant issues found. Code looks good.")
                 ELSE IF criticalIssues > 0
                 THEN JString("Found " \o ToString(criticalIssues)
                         \o " critical issue(s) that should be addressed before merging.")
                 ELSE JString("Found " \o ToString(Len(issues))
                         \o " issue(s) to consider for improved code quality.")
            ELSE given ]

formatFPPatterns(patterns) ==
    IF Len(patterns) = 0 THEN << "FALSE_POSITIVE_PATTERNS: none" >>
    ELSE << "FALSE_POSITIVE_PATTERNS:" >> \o patterns

buildSystemMessages(frameworkName, fpPatterns) ==
    << [ text |-> << "AGENT_CONSENSUS_INSTRUCTIONS" >>, cache_control |-> "ephemeral" ],
       [ text |-> formatFPPatterns(fpPatterns), cache_control |-> "ephemeral" ],
       [ text |-> << "FRAMEWORK_INSTRUCTIONS",
                     IF frameworkName \in FrameworkNames THEN frameworkName ELSE "vanilla" >>,
         cache_control |-> "ephemeral" ] >>

\* the template of buildUserMessage, as the record of the values it interpolates
buildUserMessage(analysis, strategy, projectConventions) ==
    [ framework |-> analysis.context.framework,
      affected_areas |-> analysis.context.affectedAreas,
      critical_module |-> analysis.context.flags.criticalModule,
      test_changed |-> analysis.context.flags.testChanged,
      schema_changed |-> analysis.context.flags.schemaChanged,
      config_only |-> analysis.context.flags.configOnly,
      strategy |-> strategy.name,
      instructions |-> strategy.instructions,
      project_conventions |-> projectConventions,
      diff |-> analysis.prioritizedDiff ]

\* a request whose ceiling is the strategy's context budget
buildRequest_budgetAsCeiling(analysis, strategy, fpPatterns, projectConventions) ==
    [ userMessage |-> buildUserMessage(analysis, strategy, projectConventions),
      maxTokens |-> strategy.contextTokenBudget,
      systemMessages |-> buildSystemMessages(analysis.context.framework, fpPatterns),
      enableThinking |-> TRUE,
      thinkingBudget |-> 2000 ]

\* the argument list of claudeAdapter.sendAdvancedMessage in generateReview
buildRequest(analysis, strategy, fpPatterns, projectConventions) ==
    [ userMessage |-> buildUserMessage(analysis, strategy, projectConventions),
      maxTokens |-> strategy.maxTokens,
      systemMessages |-> buildSystemMessages(analysis.context.framework, fpPatterns),
      enableThinking |-> TRUE,
      thinkingBudget |-> 2000 ]

\* generateReview after the adapter resolved with `response`
reviewResultOf(analysis, strategy, response) ==
    LET parsed == parseReviewResponse(response.text)
    IN  [ issues |-> parsed.issues,
          summary |-> generateSummary(parsed.issues, analysis, parsed.consensus),
          metadata |-> [ framework |-> analysis.context.framework,
                         strategy |-> strategy.name,
                         tokensUsed |-> response.usage.inputTokens + response.usage.outputTokens,
                         filesReviewed |-> Len(analysis.prioritizedFiles),
                         filesExcluded |-> Len(analysis.excludedFiles) ] ]

----------------------------------------------------------------------------
(* PrivacyGuard *)

\* the four regular expressions of secretPatterns, in their order
secretPatterns ==
    << "credential_assignment", "private_key_header", "aws_access_key", "quoted_secret" >>

\* regex.exec(diff) finds a match: some block's text matches the pattern
PatternMatchesDiff(pattern, diff) ==
    \E i \in 1..Len(diff) : diff[i].secret = pattern

\* validateNoSecrets(diff): the pattern of the ValidationError it throws, or
\* "none" when it returns
validateNoSecrets_never(diff) ==
    "none"

validateNoSecrets(diff) ==
    IF \E k \in 1..Len(secretPatterns) : PatternMatchesDiff(secretPatterns[k], diff)
    THEN secretPatterns[CHOOSE k \in 1..Len(secretPatterns) :
            /\ PatternMatchesDiff(secretPatterns[k], diff)
            /\ \A j \in 1..(k - 1) : ~PatternMatchesDiff(secretPatterns[j], diff)]
    ELSE "none"

----------------------------------------------------------------------------
(* The inputs of a review run *)

\* the most files a pull request of the model changes
MaxPRFiles == 2

PullFile(path, patch, blockBytes, secret) ==
    [filename |-> path, patch |-> patch, blockBytes |-> blockBytes, secret |-> secret]

\* a file GitHub lists without a patch
NoPatch == [defined |-> FALSE, tag |-> "", length |-> 0]
Patch(tag, length) == [defined |-> TRUE, tag |-> tag, length |-> length]

PullFiles ==
    { PullFile(<< <<"src">>, <<"auth">>, <<"login", "ts">> >>, Patch("login", 400), 600, "none"),
      PullFile(<< <<"src">>, <<"users">>, <<"users", "service", "ts">> >>,
               Patch("service", 20000), 20100, "none"),
      PullFile(<< <<"src">>, <<"reports">>, <<"export", "ts">> >>, NoPatch, 819189, "none"),
      PullFile(<< <<"jest", "config", "ts">> >>, Patch("jest", 120), 819189, "none"),
      PullFile(<< <<"package", "json">> >>, Patch("pkg", 80), 200, "none"),
      PullFile(<< <<"README", "md">> >>, Patch("readme", 200), 300, "none"),
      PullFile(<< <<"", "env">> >>, Patch("env", 50), 100, "credential_assignment"),
      PullFile(<< <<"src">>, <<"app", "ts">> >>, Patch("app", 300), 400, "aws_access_key"),
      PullFile(<< <<"dist">>, <<"main", "js">> >>, Patch("bundle", 1000), 1200, "none") }

\* the pull requests: up to MaxPRFiles changed files, no file twice
Pulls == InjSeqs(PullFiles, MaxPRFiles)

\* what GET pulls/{n} returns with the diff media type
DiffOfPull(pull) ==
    [ i \in 1..Len(pull) |-> DiffBlock(pull[i].filename, pull[i].blockBytes, pull[i].secret) ]

\* the contents of .github/dialectic-pr.json, as ConfigLoader.load returns them
DefaultConfig ==
    [ valid |-> TRUE, exclude_patterns |-> << >>, false_positive_patterns |-> << >>,
      conventions |-> "" ]

CustomConfig ==
    [ valid |-> TRUE, exclude_patterns |-> << GlobSuffix(<<"md">>) >>,
      false_positive_patterns |-> << "project-pattern" >>,
      conventions |-> "## From docs/conventions.md" ]

InvalidConfig ==
    [ valid |-> FALSE, exclude_patterns |-> << >>, false_positive_patterns |-> << >>,
      conventions |-> "" ]

Configs == { DefaultConfig, CustomConfig, InvalidConfig }

\* what frameworkDetector.detect resolves with in the runs of the model
DetectedFrameworks == {"vanilla", "nestjs"}

RawIssue(file, type, confidence, title) ==
    JObject([ file |-> file, type |-> type, confidence |-> confidence, title |-> title,
              description |-> JString("description") ])

Consensus(assessment) ==
    JObject([ totalReviewed |-> JNumber(3), issuesRaised |-> JNumber(2),
              issuesFiltered |-> JNumber(1), overallAssessment |-> assessment ])

Usage == [ inputTokens |-> 1200, outputTokens |-> 300 ]

\* the responses the completion service gives in the runs of the model
Responses ==
    { [ text |-> ResponseText("plain",
            JObject([ issues |-> JArray(<< RawIssue(JString("src/app.ts"), JString("bug"),
                                                   JString("high"), JString("Null check")) >>),
                      consensus |-> Consensus(JString("One real bug.")) ])),
        usage |-> Usage ],
      [ text |-> ResponseText("fenced",
            JObject([ issues |-> JArray(<< >>),
                      consensus |-> Consensus(JString("Nothing to report.")) ])),
        usage |-> Usage ],
      [ text |-> ResponseText("plain",
            JObject([ issues |-> JArray(<< RawIssue(JUndefined, JString("style"), JString("low"), JUndefined),
                                           RawIssue(JString("a.ts"), JString("security"),
                                                    JUndefined, JString("Injection")) >>) ])),
        usage |-> Usage ],
      [ text |-> ResponseText("plain",
            JObject([ issues |-> JArray(<< RawIssue(JString("a.ts"), JNumber(0), JString("medium"),
                                                    JString("Naming")) >>),
                      consensus |-> Consensus(JString("")) ])),
        usage |-> Usage ],
      [ text |-> ResponseText("prose",
            JObject([ issues |-> JArray(<< >>), consensus |-> Consensus(JString("Fine.")) ])),
        usage |-> Usage ],
      [ text |-> ResponseText("plain", JInvalid), usage |-> Usage ],
      [ text |-> ResponseText("plain", JNull), usage |-> Usage ],
      [ text |-> ResponseText("fenced",
            JObject([ consensus |-> Consensus(JString("No issues array.")) ])),
        usage |-> Usage ],
      [ text |-> ResponseText("plain",
            JObject([ issues |-> JString("none"), consensus |-> Consensus(JString("Text.")) ])),
        usage |-> Usage ],
      [ text |-> ResponseText("plain", JObject([ issues |-> JArray(<< JNull >>) ])),
        usage |-> Usage ] }

\* the status codes an adapter's APIError carries in the runs of the model
ErrorStatuses == {401, 500}

----------------------------------------------------------------------------
(* State *)

VARIABLES
    pull,            \* the pull request on GitHub: its changed files
    cli,             \* the command line: the entry taken and --dry-run
    env,             \* the required environment variables that are set
    pc,              \* where the review run stands
    config,          \* the loaded configuration
    diff,            \* what getPRDiff resolved with
    prFiles,         \* what getPRFiles resolved with
    analysis,        \* what prAnalyzer.analyze resolved with
    strategy,        \* what strategySelector.select returned
    claudeRequests,  \* the requests sent to the completion service
    response,        \* what the completion service answered
    result,          \* the ReviewResult of generateReview
    trace,           \* the calls made so far, in order
    posted,          \* the comment bodies postComment delivered
    exitCode,        \* the exit code of the process, -1 while it runs
    error,           \* the error that ended the run
    strategies,      \* StrategySelector.strategies
    sel,             \* a call of StrategySelector.select
    pack,            \* a call of SmartFilter.truncateToTokenLimit
    twin,            \* two pull requests that differ in excluded files only
    call             \* a call of a library operation, with its arguments and result

vars == << pull, cli, env, pc, config, diff, prFiles, analysis, strategy, claudeRequests,
           response, result, trace, posted, exitCode, error, strategies, sel, pack, twin, call >>

runVars == << pull, cli, env, pc, config, diff, prFiles, analysis, strategy, claudeRequests,
              response, result, trace, posted, exitCode, error >>

Nil == [nil |-> TRUE]

NoError == [name |-> "none"]
ValidationError(what) == [name |-> "ValidationError", what |-> what]
ConfigError == [name |-> "ConfigError"]
APIError(statusCode, what) == [name |-> "APIError", statusCode |-> statusCode, what |-> what]

RequiredEnv == {"ANTHROPIC_API_KEY", "GITHUB_TOKEN"}

\* the program has not started
RunIdle ==
    /\ pc = "start" /\ config = Nil /\ diff = << >> /\ prFiles = << >>
    /\ analysis = Nil /\ strategy = Nil /\ claudeRequests = << >> /\ response = Nil /\ result = Nil
    /\ trace = << >> /\ posted = << >> /\ exitCode = -1 /\ error = NoError

----------------------------------------------------------------------------
(* The review command of the CLI *)

ExitCode_alwaysZero(err) == 0

\* process.exit(0) after reviewCommand returned, process.exit(1) in the catch of
\* the review command; the default command has no catch: its action resolves and
\* the process ends with code 0, or rejects and Node ends it with code 1
ExitCode(err) == IF err = NoError THEN 0 ELSE 1

Exit(err) ==
    /\ pc' = "exited"
    /\ error' = err
    /\ exitCode' = ExitCode(err)

\* reviewCommand's dryRun argument: options.dryRun of the review command,
\* false from the default command
DryRun == cli.entry = "review" /\ cli.dryRun

\* prFiles.map(f => ({ path: f.filename, content: f.patch || "", ... }))
changedFilesOf(files) ==
    [ i \in 1..Len(files) |->
        [ path |-> files[i].filename,
          content |-> IF files[i].patch.defined /\ files[i].patch.length > 0
                      THEN Text(files[i].patch.tag, files[i].patch.length)
                      ELSE EmptyText ] ]

\* loadOptionsFromEnv, validateEnvironment and configLoader.load
Start ==
    /\ pc = "start"
    /\ \/ /\ ~(RequiredEnv \subseteq env)
          /\ Exit(ValidationError("environment"))
          /\ UNCHANGED config
       \/ /\ RequiredEnv \subseteq env
          /\ \E c \in Configs :
                IF c.valid
                THEN /\ config' = c
                     /\ pc' = "getPRDiff"
                     /\ UNCHANGED << error, exitCode >>
                ELSE /\ Exit(ConfigError)
                     /\ UNCHANGED config
    /\ UNCHANGED << pull, cli, env, diff, prFiles, analysis, strategy, claudeRequests,
                    response, result, trace, posted, strategies, sel, pack, twin, call >>

\* await githubAdapter.getPRDiff(prInfo)
GetPRDiff ==
    /\ pc = "getPRDiff"
    /\ trace' = Append(trace, "getPRDiff")
    /\ \/ /\ diff' = DiffOfPull(pull)
          /\ pc' = "getPRFiles"
          /\ UNCHANGED << error, exitCode >>
       \/ /\ \E code \in ErrorStatuses : Exit(APIError(code, "Failed to fetch PR diff"))
          /\ UNCHANGED diff
    /\ UNCHANGED << pull, cli, env, config, prFiles, analysis, strategy, claudeRequests,
                    response, result, posted, strategies, sel, pack, twin, call >>

\* await githubAdapter.getPRFiles(prInfo)
GetPRFiles ==
    /\ pc = "getPRFiles"
    /\ trace' = Append(trace, "getPRFiles")
    /\ \/ /\ prFiles' = pull
          /\ pc' = "analyze"
          /\ UNCHANGED << error, exitCode >>
       \/ /\ \E code \in ErrorStatuses : Exit(APIError(code, "Failed to fetch PR files"))
          /\ UNCHANGED prFiles
    /\ UNCHANGED << pull, cli, env, config, diff, analysis, strategy, claudeRequests,
                    response, result, posted, strategies, sel, pack, twin, call >>

\* the skip check after select: the skip notice, or on to generateReview
afterSelect_noSkipCheck(selected) ==
    "generateReview"

afterSelect(selected) ==
    IF selected.name = "skip" THEN "postSkip" ELSE "generateReview"

\* steps 8 to 11 of reviewCommand: validateNoSecrets, the file conversion,
\* prAnalyzer.analyze and strategySelector.select
Analyze ==
    /\ pc = "analyze"
    /\ trace' = Append(trace, "validateNoSecrets")
    /\ IF validateNoSecrets(diff) # "none"
       THEN /\ Exit(ValidationError(validateNoSecrets(diff)))
            /\ UNCHANGED << analysis, strategy >>
       ELSE /\ \E framework \in DetectedFrameworks :
                  analysis' = analyze(config.exclude_patterns, << >>, framework, diff,
                                      changedFilesOf(prFiles))
            /\ strategy' = select(strategies, analysis'.metrics.diffSize,
                                  analysis'.context.flags.criticalModule,
                                  analysis'.context.flags.configOnly)
            /\ pc' = afterSelect(strategy')
            /\ UNCHANGED << error, exitCode >>
    /\ UNCHANGED << pull, cli, env, config, diff, prFiles, claudeRequests, response, result, posted,
                    strategies, sel, pack, twin, call >>

SkipNotice(diffSize) == [kind |-> "too_large", diffSize |-> diffSize]

\* the skip branch: await githubAdapter.postComment(prInfo, "PR Too Large ...")
PostSkipNotice ==
    /\ pc = "postSkip"
    /\ trace' = Append(trace, "postComment")
    /\ \/ /\ posted' = Append(posted, SkipNotice(analysis.metrics.diffSize))
          /\ Exit(NoError)
       \/ /\ \E code \in ErrorStatuses : Exit(APIError(code, "Failed to post comment"))
          /\ UNCHANGED posted
    /\ UNCHANGED << pull, cli, env, config, diff, prFiles, analysis, strategy,
                    claudeRequests, response, result, strategies, sel, pack, twin, call >>

\* steps 12 to 14: the conventions, await consensusEngine.generateReview(...),
\* and the dry-run branch of step 15
GenerateReview ==
    /\ pc = "generateReview"
    /\ trace' = Append(trace, "sendAdvancedMessage")
    /\ claudeRequests' = Append(claudeRequests,
            buildRequest(analysis, strategy, config.false_positive_patterns, config.conventions))
    /\ \/ /\ \E r \in Responses :
                /\ response' = r
                /\ result' = reviewResultOf(analysis, strategy, r)
          /\ IF DryRun
             THEN Exit(NoError)
             ELSE /\ pc' = "postReview"
                  /\ UNCHANGED << error, exitCode >>
       \/ /\ \E code \in ErrorStatuses : Exit(APIError(code, "Claude API Error"))
          /\ UNCHANGED << response, result >>
    /\ UNCHANGED << pull, cli, env, config, diff, prFiles, analysis, strategy, posted,
                    strategies, sel, pack, twin, call >>

ReviewBody(res) ==
    IF Len(res.issues) > 0
    THEN [kind |-> "review", issues |-> res.issues, summary |-> res.summary,
          metadata |-> res.metadata]
    ELSE [kind |-> "no_issues", assessment |-> res.summary.overallAssessment]

\* step 15 when not a dry run: await githubAdapter.postComment(prInfo, body)
PostReview ==
    /\ pc = "postReview"
    /\ trace' = Append(trace, "postComment")
    /\ \/ /\ posted' = Append(posted, ReviewBody(result))
          /\ Exit(NoError)
       \/ /\ \E code \in ErrorStatuses : Exit(APIError(code, "Failed to post comment"))
          /\ UNCHANGED posted
    /\ UNCHANGED << pull, cli, env, config, diff, prFiles, analysis, strategy,
                    claudeRequests, response, result, strategies, sel, pack, twin, call >>

CommandLines ==
    { [entry |-> "review", dryRun |-> TRUE], [entry |-> "review", dryRun |-> FALSE],
      [entry |-> "default", dryRun |-> FALSE] }

Init ==
    /\ pull \in Pulls
    /\ cli \in CommandLines
    /\ env \in { RequiredEnv, {"GITHUB_TOKEN"} }
    /\ RunIdle
    /\ strategies = DefaultStrategies
    /\ sel = Nil /\ pack = Nil /\ twin = Nil /\ call = Nil

Next ==
    \/ Start
    \/ GetPRDiff
    \/ GetPRFiles
    \/ Analyze
    \/ PostSkipNotice
    \/ GenerateReview
    \/ PostReview

Spec == Init /\ [][Next]_vars

----------------------------------------------------------------------------
(* StrategySelector.select and setCustomStrategy on their own *)

\* the most setCustomStrategy calls before a select
MaxOverrides == 1

DiffSizes ==
    { 0, 40000, 51199, 51200, 51201, 153599, 153600, 204799, 204800, 819199, 819200, 900000 }

Overrides ==
    { [maxTokens |-> 20000],
      [contextTokenBudget |-> 5001, name |-> "skip"],
      [maxTokens |-> 1000, contextTokenBudget |-> 333, instructions |-> "Custom."] }

InitSelect ==
    /\ pull = << >> /\ cli = [entry |-> "review", dryRun |-> FALSE] /\ env = RequiredEnv
    /\ RunIdle
    /\ strategies = DefaultStrategies
    /\ sel = [overrides |-> 0, called |-> FALSE, name |-> "none",
              override |-> [name |-> "none"], before |-> DefaultStrategies]
    /\ pack = Nil /\ twin = Nil /\ call = Nil

SetCustomStrategy ==
    /\ ~sel.called
    /\ sel.overrides < MaxOverrides
    /\ \E name \in StrategyNames, override \in Overrides :
          /\ strategies' = setCustomStrategy(strategies, name, override)
          /\ sel' = [sel EXCEPT !.overrides = @ + 1, !.name = name,
                                 !.override = override, !.before = strategies]
    /\ UNCHANGED << runVars, pack, twin, call >>

Select ==
    /\ ~sel.called
    /\ \E diffSize \in DiffSizes, criticalModule \in BOOLEAN, configOnly \in BOOLEAN :
          sel' = [ overrides |-> sel.overrides, called |-> TRUE, name |-> sel.name,
                   override |-> sel.override, before |-> sel.before,
                   diffSize |-> diffSize, criticalModule |-> criticalModule,
                   configOnly |-> configOnly,
                   strategy |-> select(strategies, diffSize, criticalModule, configOnly) ]
    /\ UNCHANGED << runVars, strategies, pack, twin, call >>

NextSelect == SetCustomStrategy \/ Select

SpecSelect == InitSelect /\ [][NextSelect]_vars

----------------------------------------------------------------------------
(* SmartFilter.truncateToTokenLimit on its own *)

\* the most files of a packing call, and the largest budget
MaxPackFiles == 3
MaxTokenLimit == 4

\* content lengths: 0, 1, 1, 2 and 3 estimated tokens
PackLengths == {0, 1, 4, 5, 9}

PackFiles ==
    { [ path |-> << << name, "ts" >> >>, content |-> Text(name, n),
        priority |-> "high", reason |-> "test" ] : name \in {"a", "b"}, n \in PackLengths }

InitPack ==
    /\ pull = << >> /\ cli = [entry |-> "review", dryRun |-> FALSE] /\ env = RequiredEnv
    /\ RunIdle
    /\ strategies = DefaultStrategies
    /\ sel = Nil /\ twin = Nil /\ call = Nil
    /\ \E files \in SeqsUpTo(PackFiles, MaxPackFiles), tokenLimit \in 0..MaxTokenLimit :
          pack = [ files |-> files, tokenLimit |-> tokenLimit, called |-> FALSE ]

Truncate ==
    /\ ~pack.called
    /\ pack' = [ files |-> pack.files, tokenLimit |-> pack.tokenLimit, called |-> TRUE,
                 result |-> truncateToTokenLimit(pack.files, pack.tokenLimit) ]
    /\ UNCHANGED << runVars, strategies, sel, twin, call >>

NextPack == Truncate

SpecPack == InitPack /\ [][NextPack]_vars

----------------------------------------------------------------------------
(* Two pull requests that differ in excluded files only *)

\* the most changes made to the excluded files of the second pull request
MaxPerturbations == 2

\* the diff section of the request a run on `p` would send
RequestDiffOf(p, cfg, framework) ==
    LET an == analyze(cfg.exclude_patterns, << >>, framework, DiffOfPull(p), changedFilesOf(p))
        st == select(DefaultStrategies, an.metrics.diffSize,
                     an.context.flags.criticalModule, an.context.flags.configOnly)
    IN  buildRequest(an, st, cfg.false_positive_patterns, cfg.conventions).userMessage.diff

InsertAt(s, i, x) == SubSeq(s, 1, i) \o << x >> \o SubSeq(s, i + 1, Len(s))
RemoveAt(s, i) == SubSeq(s, 1, i - 1) \o SubSeq(s, i + 1, Len(s))

InitTwin ==
    /\ pull = << >> /\ cli = [entry |-> "review", dryRun |-> FALSE] /\ env = RequiredEnv
    /\ RunIdle
    /\ strategies = DefaultStrategies
    /\ sel = Nil /\ pack = Nil /\ call = Nil
    /\ \E a \in Pulls, cfg \in { DefaultConfig, CustomConfig } :
          twin = [ a |-> a, b |-> a, config |-> cfg, changes |-> 0, called |-> FALSE ]

\* an excluded file is added to, dropped from or rewritten in the second pull
ChangeExcluded ==
    /\ ~twin.called
    /\ twin.changes < MaxPerturbations
    /\ \E b \in
          { InsertAt(twin.b, i, f) :
              i \in 0..Len(twin.b),
              f \in { g \in PullFiles :
                        /\ shouldExclude(twin.config.exclude_patterns, g.filename)
                        /\ \A k \in 1..Len(twin.b) : twin.b[k].filename # g.filename } }
          \cup { RemoveAt(twin.b, i) :
                   i \in { k \in 1..Len(twin.b) :
                             shouldExclude(twin.config.exclude_patterns, twin.b[k].filename) } }
          \cup { [twin.b EXCEPT ![i].patch = Patch("rewritten", 777)] :
                   i \in { k \in 1..Len(twin.b) :
                             shouldExclude(twin.config.exclude_patterns, twin.b[k].filename) } } :
          twin' = [twin EXCEPT !.b = b, !.changes = @ + 1]
    /\ UNCHANGED << runVars, strategies, sel, pack, call >>

AnalyzeTwin ==
    /\ ~twin.called
    /\ \E framework \in DetectedFrameworks :
          twin' = [ a |-> twin.a, b |-> twin.b, config |-> twin.config,
                    changes |-> twin.changes, called |-> TRUE,
                    diffA |-> RequestDiffOf(twin.a, twin.config, framework),
                    diffB |-> RequestDiffOf(twin.b, twin.config, framework) ]
    /\ UNCHANGED << runVars, strategies, sel, pack, call >>

NextTwin == ChangeExcluded \/ AnalyzeTwin

SpecTwin == InitTwin /\ [][NextTwin]_vars

----------------------------------------------------------------------------
(* Properties *)

\* the estimated tokens of the contents of `files`, file by file
TokensOf(files) == SeqSum([ i \in 1..Len(files) |-> estimateTokens(files[i].content) ])

\* how often `x` occurs in `s`
Count(s, x) == Cardinality({ i \in 1..Len(s) : s[i] = x })

\* C1: whatever the prioritized files and the budget (0 or more), the files
\* truncateToTokenLimit returns as included have estimated tokens,
\* ceil(content.length / 4) summed file by file, of at most the budget.
C1_IncludedWithinBudget ==
    (pack # Nil /\ pack.called) =>
        TokensOf(pack.result.included) <= pack.tokenLimit

\* a packing call that used its budget up exactly and left a file out
C1_Witness ==
    /\ pack # Nil /\ pack.called
    /\ Len(pack.result.included) >= 2
    /\ Len(pack.result.excluded) >= 1
    /\ TokensOf(pack.result.included) = pack.tokenLimit
    /\ pack.tokenLimit > 0

\* C2: in every run that reaches the completion service, the file content of
\* the request's diff has estimated tokens of at most the contextTokenBudget of
\* the selected strategy.  The pipeline never packs: every file that is not
\* excluded goes into the prioritized diff, so this does not hold of the code.
C2_RequestWithinBudget ==
    \A i \in 1..Len(claudeRequests) :
        TokensOf(claudeRequests[i].userMessage.diff) <= strategy.contextTokenBudget

\* C3 as stated: in every run whose diff size is 819,200 bytes or more the
\* completion service is never called, whatever criticalModule and configOnly.
C3_Original ==
    (analysis # Nil /\ analysis.metrics.diffSize >= 819200) =>
        /\ claudeRequests = << >>
        /\ "sendAdvancedMessage" \notin Range(trace)

\* C3: in every run whose diff size is 819,200 bytes or more and whose changed
\* files are not all configuration files (configOnly is false), the completion
\* service is never called, whatever the value of criticalModule; the run goes
\* to the skip notice instead.
C3_NoCallAtLargestBound ==
    (/\ analysis # Nil
     /\ analysis.metrics.diffSize >= 819200
     /\ ~analysis.context.flags.configOnly) =>
        /\ strategy.name = "skip"
        /\ claudeRequests = << >>
        /\ "sendAdvancedMessage" \notin Range(trace)
        /\ result = Nil
        /\ pc \in {"postSkip", "exited"}

\* a finished run over a critical module with a diff above the largest bound
C3_Witness ==
    /\ pc = "exited"
    /\ analysis # Nil
    /\ analysis.metrics.diffSize >= 819200
    /\ ~analysis.context.flags.configOnly
    /\ analysis.context.flags.criticalModule
    /\ claudeRequests = << >>
    /\ Len(posted) = 1

\* C4 as stated: whenever select returns the skip tier, the run never invokes
\* generateReview, emits exactly one "PR too large" notice and ends normally
\* without an error.
C4_Original ==
    (strategy # Nil /\ strategy.name = "skip" /\ pc = "exited") =>
        /\ claudeRequests = << >>
        /\ Count(trace, "postComment") = 1
        /\ Len(posted) = 1
        /\ error = NoError
        /\ exitCode = 0

\* C4: whenever select returns the skip tier, the run never invokes
\* generateReview and calls postComment exactly once, with the "PR too large"
\* notice; when that call resolves the run ends normally (no error, exit
\* code 0) with the notice as the only comment, and when it rejects the run
\* ends with the adapter's APIError (exit code 1) and no comment.
C4_SkipPostsNoticeOnly ==
    (strategy # Nil /\ strategy.name = "skip") =>
        /\ claudeRequests = << >>
        /\ "sendAdvancedMessage" \notin Range(trace)
        /\ result = Nil
        /\ pc \in {"postSkip", "exited"}
        /\ pc = "postSkip" => (Count(trace, "postComment") = 0 /\ posted = << >>)
        /\ pc = "exited" =>
              /\ Count(trace, "postComment") = 1
              /\ \/ /\ error = NoError
                    /\ exitCode = 0
                    /\ posted = << SkipNotice(analysis.metrics.diffSize) >>
                 \/ /\ error.name = "APIError"
                    /\ error.what = "Failed to post comment"
                    /\ exitCode = 1
                    /\ posted = << >>

\* a run that selected skip, posted the notice and ended normally
C4_Witness ==
    /\ strategy # Nil /\ strategy.name = "skip"
    /\ pc = "exited"
    /\ error = NoError /\ exitCode = 0
    /\ posted = << SkipNotice(analysis.metrics.diffSize) >>
    /\ claudeRequests = << >>

\* the response text does not parse as JSON, or the parsed object has no
\* `issues` or an `issues` that is not an array
UnusableResponse(r) ==
    \/ r.text.layout = "prose"
    \/ r.text.json.t = "invalid"
    \/ /\ r.text.json.t = "object"
       /\ Member(r.text.json, "issues").t # "array"

\* C5: when the response text does not parse as JSON, or its `issues` is
\* missing or not an array, generateReview returns a ReviewResult with no
\* issues whose summary.overallAssessment is the parse-failure label.
\* generateSummary replaces that very label, so this does not hold of the code.
C5_FailedParseIsLabelled ==
    (result # Nil /\ response # Nil /\ UnusableResponse(response)) =>
        /\ result.issues = << >>
        /\ result.summary.overallAssessment = JString(ParseFailureLabel)

\* C6: when the completion-service call of generateReview rejects,
\* generateReview rejects with that error and there is no ReviewResult; the
\* run posts no comment and ends as a failure, with exit code 1.
C6_FailedCallFailsRun ==
    (error.name = "APIError" /\ error.what = "Claude API Error") =>
        /\ Last(trace) = "sendAdvancedMessage"
        /\ response = Nil
        /\ result = Nil
        /\ posted = << >>
        /\ "postComment" \notin Range(trace)
        /\ pc = "exited"
        /\ exitCode = 1

\* a run of the review command, not a dry run, that the rejected call ended
C6_Witness ==
    /\ pc = "exited"
    /\ cli = [entry |-> "review", dryRun |-> FALSE]
    /\ error = APIError(500, "Claude API Error")
    /\ Len(claudeRequests) = 1
    /\ exitCode = 1

\* C7: a run started with --dry-run never invokes postComment, on any path.
\* The skip branch posts its notice without reading dryRun, so this does not
\* hold of the code.
C7_DryRunNeverPosts ==
    DryRun =>
        /\ "postComment" \notin Range(trace)
        /\ posted = << >>

\* the files of `p` that the exclude filter lets through, in their order
NonExcluded(p, cfg) ==
    SelectSeq(p, LAMBDA f : ~shouldExclude(cfg.exclude_patterns, f.filename))

\* C8: no excluded file contributes to the diff of the completion-service
\* request: no section of the diff is an excluded file's, and two pull
\* requests with the same non-excluded files give the same diff, whatever
\* excluded files either has.
C8_ExcludedFilesContributeNothing ==
    (twin # Nil /\ twin.called
        /\ NonExcluded(twin.a, twin.config) = NonExcluded(twin.b, twin.config)) =>
        /\ twin.diffA = twin.diffB
        /\ \A i \in 1..Len(twin.diffB) :
              ~shouldExclude(twin.config.exclude_patterns, twin.diffB[i].file)
        /\ \A i \in 1..Len(twin.diffA) :
              ~shouldExclude(twin.config.exclude_patterns, twin.diffA[i].file)

\* two pull requests analysed whose excluded files differ and whose request
\* diff is not empty
C8_Witness ==
    /\ twin # Nil /\ twin.called
    /\ twin.a # twin.b
    /\ Len(twin.b) > Len(NonExcluded(twin.b, twin.config))
    /\ NonExcluded(twin.a, twin.config) = NonExcluded(twin.b, twin.config)
    /\ Len(twin.diffB) > 0

\* some block of the diff matches one of the secret patterns
HasSecret(d) == \E i \in 1..Len(d) : d[i].secret \in Range(secretPatterns)

\* C9: in every run validateNoSecrets has scanned the fetched diff before any
\* completion-service request; when the diff holds a secret the run aborts
\* at the scan with a ValidationError (exit code 1), no request is ever made
\* and nothing is posted.
C9_SecretScanFirst ==
    /\ \A i \in 1..Len(trace) :
          trace[i] = "sendAdvancedMessage" =>
              \E j \in 1..(i - 1) : trace[j] = "validateNoSecrets"
    /\ claudeRequests # << >> => "validateNoSecrets" \in Range(trace)
    /\ HasSecret(DiffOfPull(pull)) =>
          /\ claudeRequests = << >>
          /\ "sendAdvancedMessage" \notin Range(trace)
          /\ "postComment" \notin Range(trace)
          /\ posted = << >>
          /\ "validateNoSecrets" \in Range(trace) =>
                /\ pc = "exited"
                /\ error.name = "ValidationError"
                /\ exitCode = 1

\* a run the secret scan aborted on an AWS access key in the diff
C9_Witness ==
    /\ pc = "exited"
    /\ trace # << >> /\ Last(trace) = "validateNoSecrets"
    /\ HasSecret(diff)
    /\ error = ValidationError("aws_access_key")
    /\ exitCode = 1
    /\ claudeRequests = << >>

\* C10: with the default strategies and configOnly false, select maps every
\* diff size to exactly one tier, upper bounds exclusive: below 51,200 small,
\* then below 153,600 medium, then below 204,800 large, then below 819,200
\* xlarge, and skip from 819,200 on.
C10_TierBounds ==
    (sel # Nil /\ sel.called /\ strategies = DefaultStrategies /\ ~sel.configOnly) =>
        LET d == sel.diffSize
            name == sel.strategy.name
        IN  /\ name \in StrategyNames
            /\ (name = "small") <=> (0 <= d /\ d < 51200)
            /\ (name = "medium") <=> (51200 <= d /\ d < 153600)
            /\ (name = "large") <=> (153600 <= d /\ d < 204800)
            /\ (name = "xlarge") <=> (204800 <= d /\ d < 819200)
            /\ (name = "skip") <=> (819200 <= d)

\* select on the last size of the xlarge tier, default strategies
C10_Witness ==
    /\ sel # Nil /\ sel.called
    /\ strategies = DefaultStrategies
    /\ ~sel.configOnly
    /\ sel.diffSize = 819199
    /\ sel.strategy.name = "xlarge"

\* n is floor(1.5 x base), said without the division
IsFloorOfOneAndAHalf(n, base) == 2 * n <= 3 * base /\ 3 * base < 2 * n + 2

OverriddenField(f) ==
    IF f = "name" THEN sel.name
    ELSE IF f \in DOMAIN sel.override THEN sel.override[f]
    ELSE sel.before[sel.name][f]

\* C13 as stated: after setCustomStrategy(t, overrides) the stored strategy of
\* t keeps the name t and takes the overridden values, the other tiers are
\* unchanged, and every later select that resolves to tier t uses the
\* overridden values, as the base of the boost for the two budgets.
C13_Original ==
    (sel # Nil /\ sel.overrides > 0) =>
        /\ \A f \in DOMAIN strategies[sel.name] : strategies[sel.name][f] = OverriddenField(f)
        /\ \A t \in StrategyNames \ {sel.name} : strategies[t] = sel.before[t]
        /\ (sel.called /\ sel.strategy.name = sel.name) =>
              /\ "instructions" \in DOMAIN sel.override =>
                    sel.strategy.instructions = sel.override.instructions
              /\ IF sel.criticalModule /\ ~sel.configOnly
                 THEN /\ IsFloorOfOneAndAHalf(sel.strategy.maxTokens,
                                              OverriddenField("maxTokens"))
                      /\ IsFloorOfOneAndAHalf(sel.strategy.contextTokenBudget,
                                              OverriddenField("contextTokenBudget"))
                 ELSE /\ sel.strategy.maxTokens = OverriddenField("maxTokens")
                      /\ sel.strategy.contextTokenBudget = OverriddenField("contextTokenBudget")

\* C13: after setCustomStrategy(t, overrides) the stored strategy of t keeps
\* the name t and takes the overridden values, the other tiers are unchanged;
\* every later select that resolves to t uses the overridden maxTokens and
\* contextTokenBudget (as the base of the boost when configOnly is false and
\* criticalModule true), and the overridden instructions when configOnly is
\* false; a config-only select returns the config-only instructions instead.
C13_OverrideTakesEffect ==
    (sel # Nil /\ sel.overrides > 0) =>
        /\ \A f \in DOMAIN strategies[sel.name] : strategies[sel.name][f] = OverriddenField(f)
        /\ DOMAIN strategies[sel.name] = DOMAIN sel.before[sel.name]
        /\ \A t \in StrategyNames \ {sel.name} : strategies[t] = sel.before[t]
        /\ (sel.called /\ sel.strategy.name = sel.name) =>
              /\ sel.configOnly =>
                    sel.strategy.instructions = "Quick review of configuration changes only."
              /\ (~sel.configOnly /\ "instructions" \in DOMAIN sel.override) =>
                    sel.strategy.instructions = sel.override.instructions
              /\ IF sel.criticalModule /\ ~sel.configOnly
                 THEN /\ IsFloorOfOneAndAHalf(sel.strategy.maxTokens,
                                              OverriddenField("maxTokens"))
                      /\ IsFloorOfOneAndAHalf(sel.strategy.contextTokenBudget,
                                              OverriddenField("contextTokenBudget"))
                 ELSE /\ sel.strategy.maxTokens = OverriddenField("maxTokens")
                      /\ sel.strategy.contextTokenBudget = OverriddenField("contextTokenBudget")

\* an override of medium that carried the name skip, then a select of medium
\* over a critical module: 5001 boosted to 7501
C13_Witness ==
    /\ sel # Nil /\ sel.overrides > 0 /\ sel.called
    /\ sel.name = "medium"
    /\ "name" \in DOMAIN sel.override /\ sel.override.name = "skip"
    /\ ~sel.configOnly /\ sel.criticalModule
    /\ sel.strategy.name = "medium"
    /\ sel.strategy.contextTokenBudget = 7501
    /\ strategies.skip = DefaultStrategies.skip

----------------------------------------------------------------------------
(* PatternMatcher *)

\* An issue text, an indicator phrase, a file content, a context marker and the
\* source of a content matcher are strings: sequences of characters.

\* String.prototype.toLowerCase over the characters of the model
toLowerCase(str) ==
    [ i \in 1..Len(str) |->
        CASE str[i] = "A" -> "a"
          [] str[i] = "B" -> "b"
          [] str[i] = "X" -> "x"
          [] OTHER -> str[i] ]

\* String.prototype.includes
includes(str, searchString) ==
    \E i \in 0..(Len(str) - Len(searchString)) :
        SubSeq(str, i + 1, i + Len(searchString)) = searchString

\* an optional string argument or field
NoString == [defined |-> FALSE, text |-> << >>]
SomeString(text) == [defined |-> TRUE, text |-> text]

\* JavaScript reads an absent string and the empty string as false
TruthyString(s) == s.defined /\ Len(s.text) > 0

\* pattern.pattern: a RegExp of literal characters, without flags, as those of
\* the built-in catalog are, or absent
NoRegExp == [defined |-> FALSE, source |-> << >>]
RegExpOf(source) == [defined |-> TRUE, source |-> source]

\* a RegExp of literal characters with the global flag: it keeps the index
\* its next test starts from
RegExpGlobal(source) == [defined |-> TRUE, source |-> source, lastIndex |-> 0]

IsGlobal(regexp) == "lastIndex" \in DOMAIN regexp

\* the indexes behind the matches of the source in str that start at
\* lastIndex or later
MatchEnds(regexp, str) ==
    { i + Len(regexp.source) : i \in { i \in regexp.lastIndex..(Len(str) - Len(regexp.source)) :
                                         SubSeq(str, i + 1, i + Len(regexp.source)) = regexp.source } }

\* RegExp.prototype.test: without flags the search is over the whole string;
\* with the global flag it starts at lastIndex
RegExpTestContent(regexp, str) ==
    IF IsGlobal(regexp) THEN MatchEnds(regexp, str) # {}
    ELSE includes(str, regexp.source)

\* the RegExp as a test of str leaves it: with the global flag, lastIndex is
\* behind the match found, or 0 when none was found
RegExpAfterTest(regexp, str) ==
    IF ~IsGlobal(regexp) THEN regexp
    ELSE IF MatchEnds(regexp, str) = {} THEN [regexp EXCEPT !.lastIndex = 0]
    ELSE [regexp EXCEPT !.lastIndex =
            CHOOSE e \in MatchEnds(regexp, str) : \A other \in MatchEnds(regexp, str) : e <= other]

\* pattern.contextRequired: an array of markers, or absent; an array is read
\* as true in a condition even when it is empty
NoContext == [defined |-> FALSE, markers |-> << >>]
ContextOf(markers) == [defined |-> TRUE, markers |-> markers]

FalsePositivePattern(id, indicators, regexp, contextRequired) ==
    [ id |-> id, falsePositiveIndicators |-> indicators, pattern |-> regexp,
      contextRequired |-> contextRequired ]

\* `${issue.title} ${issue.description} ${issue.suggestion || ""}`.toLowerCase()
issueTextOf(issue) ==
    toLowerCase(issue.title \o << " " >> \o issue.description \o << " " >>
                \o (IF TruthyString(issue.suggestion) THEN issue.suggestion.text ELSE << >>))

\* the indicators of the pattern found in the issue text, in their order
matchedIndicatorsOf(pattern, issueText) ==
    SelectSeq(pattern.falsePositiveIndicators,
              LAMBDA indicator : includes(issueText, toLowerCase(indicator)))

\* score and maxPossibleScore of matchPattern, in tenths
scoreOf(pattern, issueText, fileContent) ==
    10 * Len(matchedIndicatorsOf(pattern, issueText))
    + (IF pattern.pattern.defined /\ TruthyString(fileContent)
          /\ RegExpTestContent(pattern.pattern, fileContent.text)
       THEN 5 ELSE 0)
    + (IF pattern.contextRequired.defined /\ TruthyString(fileContent)
       THEN IF \E k \in 1..Len(pattern.contextRequired.markers) :
                  includes(fileContent.text, pattern.contextRequired.markers[k])
            THEN 3 ELSE -5
       ELSE 0)

maxPossibleScoreOf(pattern) ==
    10 * Len(pattern.falsePositiveIndicators)
    + (IF pattern.pattern.defined THEN 5 ELSE 0)
    + (IF pattern.contextRequired.defined THEN 3 ELSE 0)

\* matchedIndicators.length >= 1 && confidence >= 0.3, the confidence being
\* score / maxPossibleScore, at most 1, or 0 when maxPossibleScore is 0
isFalsePositive_anyMatch(matched, score, maxPossibleScore) ==
    matched >= 1

isFalsePositive_noIndicator(matched, score, maxPossibleScore) ==
    maxPossibleScore > 0 /\ 10 * score >= 3 * maxPossibleScore

isFalsePositive_atLeastHalf(matched, score, maxPossibleScore) ==
    matched >= 1 /\ maxPossibleScore > 0 /\ 10 * score >= 5 * maxPossibleScore

isFalsePositive(matched, score, maxPossibleScore) ==
    /\ matched >= 1
    /\ maxPossibleScore > 0
    /\ 10 * score >= 3 * maxPossibleScore

\* the confidence as the fraction num / den
confidenceOf(score, maxPossibleScore) ==
    IF maxPossibleScore > 0
    THEN IF score > maxPossibleScore THEN [num |-> 1, den |-> 1]
         ELSE [num |-> score, den |-> maxPossibleScore]
    ELSE [num |-> 0, den |-> 1]

matchPattern(pattern, issueText, fileContent) ==
    LET matchedIndicators == matchedIndicatorsOf(pattern, issueText)
        score == scoreOf(pattern, issueText, fileContent)
        maxPossibleScore == maxPossibleScoreOf(pattern)
        fp == isFalsePositive(Len(matchedIndicators), score, maxPossibleScore)
    IN  [ isFalsePositive |-> fp,
          matchedPattern |-> IF fp THEN pattern ELSE JUndefined,
          confidence |-> confidenceOf(score, maxPossibleScore),
          matchedIndicators |-> matchedIndicators ]

NoMatch ==
    [ isFalsePositive |-> FALSE, matchedPattern |-> JUndefined,
      confidence |-> [num |-> 0, den |-> 1], matchedIndicators |-> << >> ]

\* the loop of checkIssue over the patterns from the k-th on
RECURSIVE checkIssueFrom(_, _, _, _)
checkIssueFrom(patterns, k, issueText, fileContent) ==
    IF k > Len(patterns) THEN NoMatch
    ELSE LET found == matchPattern(patterns[k], issueText, fileContent)
         IN  IF found.isFalsePositive THEN found
             ELSE checkIssueFrom(patterns, k + 1, issueText, fileContent)

checkIssue(patterns, issue, fileContent) ==
    checkIssueFrom(patterns, 1, issueTextOf(issue), fileContent)

\* the pattern as matchPattern leaves it: its content matcher is tested when
\* there is one and a file content was supplied
patternAfterMatch(pattern, fileContent) ==
    IF pattern.pattern.defined /\ TruthyString(fileContent)
    THEN [pattern EXCEPT !.pattern = RegExpAfterTest(@, fileContent.text)]
    ELSE pattern

\* the patterns as the loop of checkIssue leaves them: it matches the patterns
\* in order up to the first that reports a false positive
RECURSIVE patternsAfterCheckFrom(_, _, _, _)
patternsAfterCheckFrom(patterns, k, issueText, fileContent) ==
    IF k > Len(patterns) THEN patterns
    ELSE With([patterns EXCEPT ![k] = patternAfterMatch(@, fileContent)],
              LAMBDA matched :
                IF matchPattern(patterns[k], issueText, fileContent).isFalsePositive
                THEN matched
                ELSE patternsAfterCheckFrom(matched, k + 1, issueText, fileContent))

patternsAfterCheck(patterns, issue, fileContent) ==
    patternsAfterCheckFrom(patterns, 1, issueTextOf(issue), fileContent)

\* fileContents?.get(issue.file)
fileContentOf(fileContents, file) ==
    IF fileContents.defined /\ file \in DOMAIN fileContents.map
    THEN SomeString(fileContents.map[file])
    ELSE NoString

\* the loop of filterIssues: the two lists, and the patterns as the calls of
\* checkIssue leave them
RECURSIVE filterIssuesLoop(_, _, _, _, _)
filterIssuesLoop(patterns, issues, fileContents, filtered, removed) ==
    IF issues = << >>
    THEN [filtered |-> filtered, removed |-> removed, patterns |-> patterns]
    ELSE With([ issue |-> Head(issues),
                found |-> checkIssue(patterns, Head(issues),
                                     fileContentOf(fileContents, Head(issues).file)),
                patterns |-> patternsAfterCheck(patterns, Head(issues),
                                     fileContentOf(fileContents, Head(issues).file)) ],
              LAMBDA checked :
                IF checked.found.isFalsePositive
                THEN filterIssuesLoop(checked.patterns, Tail(issues), fileContents, filtered,
                         Append(removed, [issue |-> checked.issue, reason |-> checked.found]))
                ELSE filterIssuesLoop(checked.patterns, Tail(issues), fileContents,
                         Append(filtered, checked.issue), removed))

filterIssues_keepsAll(patterns, issues, fileContents) ==
    [ filtered |-> issues,
      removed |-> filterIssuesLoop(patterns, issues, fileContents, << >>, << >>).removed ]

filterIssues(patterns, issues, fileContents) ==
    [ filtered |-> filterIssuesLoop(patterns, issues, fileContents, << >>, << >>).filtered,
      removed |-> filterIssuesLoop(patterns, issues, fileContents, << >>, << >>).removed ]

\* the matcher's patterns after filterIssues
patternsAfterFilter(patterns, issues, fileContents) ==
    filterIssuesLoop(patterns, issues, fileContents, << >>, << >>).patterns

\* the most patterns of a catalog and the most issues of a batch
MaxCatalog == 2
MaxIssues == 2

\* the patterns the catalogs of the model are made of: two indicators; four
\* indicators and a content matcher, as prisma-tagged-template-safe has; two
\* indicators and a context marker; a matcher and no indicator; an empty
\* contextRequired array; the empty indicator phrase
MatcherPatterns ==
    { FalsePositivePattern("plain", << << "A", " ", "b" >>, << "c" >> >>, NoRegExp, NoContext),
      FalsePositivePattern("prisma", << << "x" >>, << "c" >>, << "d" >>, << "e" >> >>,
                           RegExpOf(<< "$" >>), NoContext),
      FalsePositivePattern("context", << << "b" >>, << "d" >> >>, NoRegExp,
                           ContextOf(<< << "k" >> >>)),
      FalsePositivePattern("matcher_only", << >>, RegExpOf(<< "$" >>), NoContext),
      FalsePositivePattern("empty_context", << << "X" >> >>, NoRegExp, ContextOf(<< >>)),
      FalsePositivePattern("empty_phrase", << << >> >>, NoRegExp, NoContext) }

ReviewIssue(file, title, description, suggestion) ==
    [ file |-> file, title |-> title, description |-> description, suggestion |-> suggestion ]

MatcherIssues ==
    { ReviewIssue("a.ts", << "a" >>, << "b" >>, NoString),
      ReviewIssue("a.ts", << "X" >>, << "q" >>, NoString),
      ReviewIssue("b.ts", << "q" >>, << "q" >>, SomeString(<< "B" >>)),
      ReviewIssue("b.ts", << "q" >>, << "q" >>, NoString),
      ReviewIssue("a.ts", << "A" >>, << "B" >>, SomeString(<< >>)),
      ReviewIssue("a.ts", << "x" >>, << "c", " ", "d" >>, NoString) }

FileContentArgs ==
    { NoString, SomeString(<< >>), SomeString(<< "$" >>), SomeString(<< "k" >>),
      SomeString(<< "$", "k" >>), SomeString(<< "q" >>) }

\* the fileContents argument of filterIssues: absent, or a Map from path to content
FileContentMaps ==
    { [defined |-> FALSE, map |-> << >>],
      [defined |-> TRUE, map |-> [f \in {"a.ts"} |-> << "$" >>]],
      [defined |-> TRUE, map |-> [f \in {"a.ts", "b.ts"} |->
                                    IF f = "a.ts" THEN << "q" >> ELSE << >>]] }

\* new PatternMatcher(patterns)
InitMatch ==
    /\ pull = << >> /\ cli = [entry |-> "review", dryRun |-> FALSE] /\ env = RequiredEnv
    /\ RunIdle
    /\ strategies = DefaultStrategies
    /\ sel = Nil /\ pack = Nil /\ twin = Nil
    /\ \E patterns \in SeqsUpTo(MatcherPatterns, MaxCatalog) :
          call = [op |-> "none", patterns |-> patterns]

CheckIssue ==
    /\ call.op = "none"
    /\ \E issue \in MatcherIssues, fileContent \in FileContentArgs :
          call' = [ op |-> "checkIssue",
                    patterns |-> patternsAfterCheck(call.patterns, issue, fileContent),
                    issue |-> issue,
                    fileContent |-> fileContent,
                    result |-> checkIssue(call.patterns, issue, fileContent) ]
    /\ UNCHANGED << runVars, strategies, sel, pack, twin >>

FilterIssues ==
    /\ call.op = "none"
    /\ \E issues \in SeqsUpTo(MatcherIssues, MaxIssues), fileContents \in FileContentMaps :
          call' = [ op |-> "filterIssues",
                    patterns |-> patternsAfterFilter(call.patterns, issues, fileContents),
                    issues |-> issues, fileContents |-> fileContents,
                    result |-> filterIssues(call.patterns, issues, fileContents) ]
    /\ UNCHANGED << runVars, strategies, sel, pack, twin >>

NextMatch == CheckIssue \/ FilterIssues

SpecMatch == InitMatch /\ [][NextMatch]_vars

\* some indicator phrase of the pattern occurs in the lowercased text
IndicatorOccurs(pattern, text) ==
    \E k \in 1..Len(pattern.falsePositiveIndicators) :
        includes(text, toLowerCase(pattern.falsePositiveIndicators[k]))

\* how many indicator phrases of the pattern occur in the lowercased text
IndicatorHits(pattern, text) ==
    Cardinality({ k \in 1..Len(pattern.falsePositiveIndicators) :
                    includes(text, toLowerCase(pattern.falsePositiveIndicators[k])) })

\* C14: a pattern none of whose indicator phrases occurs in the issue's
\* lowercased title, description and suggestion never classifies the issue
\* as a false positive; when no indicator of any catalog pattern occurs,
\* checkIssue returns isFalsePositive = false, whatever the file content's
\* content-matcher and context-marker hits.
C14_NoIndicatorNoFalsePositive ==
    (call # Nil /\ call.op = "checkIssue") =>
        LET text == issueTextOf(call.issue)
        IN  /\ \A i \in 1..Len(call.patterns) :
                  ~IndicatorOccurs(call.patterns[i], text) =>
                      /\ ~matchPattern(call.patterns[i], text, call.fileContent).isFalsePositive
                      /\ call.result.matchedPattern # call.patterns[i]
            /\ (\A i \in 1..Len(call.patterns) : ~IndicatorOccurs(call.patterns[i], text)) =>
                  /\ call.result.isFalsePositive = FALSE
                  /\ call.result.matchedPattern = JUndefined
                  /\ call.result.matchedIndicators = << >>

\* no indicator occurs, and the file content hits both the content matcher of
\* one catalog pattern and the context marker of another
C14_Witness ==
    /\ call # Nil /\ call.op = "checkIssue"
    /\ Len(call.patterns) = 2
    /\ \A i \in 1..2 : ~IndicatorOccurs(call.patterns[i], issueTextOf(call.issue))
    /\ call.patterns[1].pattern.defined
    /\ RegExpTestContent(call.patterns[1].pattern, call.fileContent.text)
    /\ call.patterns[2].contextRequired.defined
    /\ includes(call.fileContent.text, << "k" >>)
    /\ ~call.result.isFalsePositive

\* the score of C15 in tenths, the file content being supplied or not
StatedScore(pattern, text, fileContent, supplied) ==
    10 * IndicatorHits(pattern, text)
    + (IF pattern.pattern.defined /\ supplied
          /\ RegExpTestContent(pattern.pattern, fileContent.text) THEN 5 ELSE 0)
    + (IF pattern.contextRequired.defined /\ supplied
       THEN IF \E k \in 1..Len(pattern.contextRequired.markers) :
                  includes(fileContent.text, pattern.contextRequired.markers[k])
            THEN 3 ELSE -5
       ELSE 0)

StatedDivisor(pattern) ==
    10 * Len(pattern.falsePositiveIndicators)
    + (IF pattern.pattern.defined THEN 5 ELSE 0)
    + (IF pattern.contextRequired.defined THEN 3 ELSE 0)

\* at least one indicator matched and score / divisor >= 0.3
Qualifies(pattern, text, fileContent, supplied) ==
    /\ IndicatorHits(pattern, text) >= 1
    /\ 10 * StatedScore(pattern, text, fileContent, supplied) >= 3 * StatedDivisor(pattern)

\* checkIssue answers as C15 says, the first qualifying pattern reported
AnswersAsStated(supplied) ==
    LET text == issueTextOf(call.issue)
        qualifying == { i \in 1..Len(call.patterns) :
                          Qualifies(call.patterns[i], text, call.fileContent, supplied) }
    IN  /\ call.result.isFalsePositive <=> qualifying # {}
        /\ qualifying # {} =>
              \E i \in qualifying :
                  /\ \A j \in qualifying : i <= j
                  /\ call.result.matchedPattern = call.patterns[i]
        /\ qualifying = {} => call.result.matchedPattern = JUndefined

\* C15 as stated: checkIssue returns isFalsePositive = true exactly when some
\* catalog pattern has a matched indicator and a normalized score of 0.3 or
\* more, the matcher and marker terms counted against the supplied file
\* content, and reports the first such pattern.
C15_Original ==
    (call # Nil /\ call.op = "checkIssue") => AnswersAsStated(call.fileContent.defined)

\* C15: checkIssue returns isFalsePositive = true exactly when some catalog
\* pattern has a matched indicator and a normalized score of 0.3 or more: 1
\* per matched indicator, +0.5 when the content matcher hits the file content,
\* +0.3 when a marker of contextRequired is found in it or -0.5 when
\* contextRequired is present and none is found, over indicatorCount + 0.5
\* with a matcher + 0.3 with contextRequired; the matcher and marker terms
\* count only for a non-empty file content; the first such pattern in catalog
\* order is the one reported.
C15_ScoreAndThreshold ==
    (call # Nil /\ call.op = "checkIssue") => AnswersAsStated(TruthyString(call.fileContent))

\* the second pattern of the catalog is reported: the first has a matched
\* indicator and a score below the threshold, since its marker is missing
C15_Witness ==
    /\ call # Nil /\ call.op = "checkIssue"
    /\ Len(call.patterns) = 2
    /\ TruthyString(call.fileContent)
    /\ IndicatorOccurs(call.patterns[1], issueTextOf(call.issue))
    /\ call.patterns[1].contextRequired.defined
    /\ call.patterns[1] # call.patterns[2]
    /\ call.result.isFalsePositive
    /\ call.result.matchedPattern = call.patterns[2]

\* C16 as stated: when the issue's text contains an indicator phrase of a
\* catalog pattern, case-insensitively, and no file content is supplied,
\* checkIssue classifies the issue as a false positive, with a matched
\* pattern and matched indicators.
C16_Original ==
    (/\ call # Nil /\ call.op = "checkIssue"
     /\ ~call.fileContent.defined
     /\ \E i \in 1..Len(call.patterns) :
           IndicatorOccurs(call.patterns[i], issueTextOf(call.issue))) =>
        /\ call.result.isFalsePositive
        /\ call.result.matchedPattern # JUndefined
        /\ call.result.matchedIndicators # << >>

\* C16: when m >= 1 indicator phrases of a catalog pattern occur in the
\* issue's text, case-insensitively, no file content (or an empty one) is
\* supplied, and m / (indicatorCount + 0.5 with a matcher + 0.3 with
\* contextRequired) is 0.3 or more, checkIssue classifies the issue as a
\* false positive, with a matched pattern and matched indicators.
C16_IndicatorsAboveThreshold ==
    (/\ call # Nil /\ call.op = "checkIssue"
     /\ ~TruthyString(call.fileContent)
     /\ \E i \in 1..Len(call.patterns) :
           /\ IndicatorHits(call.patterns[i], issueTextOf(call.issue)) >= 1
           /\ 100 * IndicatorHits(call.patterns[i], issueTextOf(call.issue))
                 >= 3 * StatedDivisor(call.patterns[i])) =>
        /\ call.result.isFalsePositive
        /\ call.result.matchedPattern \in Range(call.patterns)
        /\ call.result.matchedIndicators # << >>

\* an upper-case indicator found in a lower-case text, one of two matched,
\* no file content
C16_Witness ==
    /\ call # Nil /\ call.op = "checkIssue"
    /\ ~call.fileContent.defined
    /\ call.patterns # << >>
    /\ call.issue.title = << "a" >>
    /\ call.result.isFalsePositive
    /\ call.result.matchedPattern = call.patterns[1]
    /\ call.result.matchedIndicators = << << "A", " ", "b" >> >>
    /\ Len(call.patterns[1].falsePositiveIndicators) = 2

\* C18: filterIssues returns filtered and removed such that every input issue
\* is in exactly one of them, in removed exactly when checkIssue classifies
\* it as a false positive (with that result as the reason), both in the
\* input's order; with an empty catalog filtered is the input and removed is
\* empty.
C18_FilterPartitions ==
    (call # Nil /\ call.op = "filterIssues") =>
        LET Classified(issue) ==
                checkIssue(call.patterns, issue,
                           fileContentOf(call.fileContents, issue.file))
            kept == SelectSeq(call.issues, LAMBDA issue : ~Classified(issue).isFalsePositive)
            dropped == SelectSeq(call.issues, LAMBDA issue : Classified(issue).isFalsePositive)
        IN  /\ call.result.filtered = kept
            /\ Len(call.result.removed) = Len(dropped)
            /\ \A i \in 1..Len(dropped) :
                  /\ call.result.removed[i].issue = dropped[i]
                  /\ call.result.removed[i].reason = Classified(dropped[i])
            /\ Len(call.result.filtered) + Len(call.result.removed) = Len(call.issues)
            /\ call.patterns = << >> =>
                  (call.result.filtered = call.issues /\ call.result.removed = << >>)

\* a batch of two issues, the first removed and the second kept
C18_Witness ==
    /\ call # Nil /\ call.op = "filterIssues"
    /\ Len(call.issues) = 2
    /\ call.fileContents.defined
    /\ call.result.filtered = << call.issues[2] >>
    /\ Len(call.result.removed) = 1
    /\ call.result.removed[1].issue = call.issues[1]

----------------------------------------------------------------------------
(* ProjectRulesLoader *)

\* A pattern of the catalog is known by its id and by the list that holds it:
\* BUILTIN_PATTERNS, a framework's getFalsePositivePatterns, or the project
\* configuration.
CatalogPattern(id, from) == [id |-> id, from |-> from]

PatternsOf(ids, from) == [ i \in 1..Len(ids) |-> CatalogPattern(ids[i], from) ]

BUILTIN_PATTERNS ==
    PatternsOf(<< "prisma-tagged-template-safe", "prisma-queryraw-safe", "typeorm-query-builder",
                  "knex-parameterized", "nestjs-throw-error-with-filter",
                  "express-error-middleware", "async-error-wrapper", "intentional-throw",
                  "nestjs-constructor-di", "nestjs-inject-decorator", "inversify-inject",
                  "nestjs-logger-pattern", "console-in-cli", "debug-logging", "jwt-secret-env",
                  "bcrypt-rounds", "auth-decorator", "class-validator-dto", "zod-schema",
                  "joi-schema", "ts-any-intentional", "ts-type-assertion",
                  "ts-non-null-assertion", "ts-empty-interface", "react-empty-deps",
                  "react-memo-optimization", "react-index-key-static", "react-eslint-disable",
                  "nextjs-server-component", "nextjs-use-client", "nextjs-default-export",
                  "express-middleware-order", "express-error-handler-params",
                  "express-res-json-return" >>, "builtin")

\* BaseFramework.getFalsePositivePatterns
BaseFrameworkPatterns ==
    PatternsOf(<< "console-log-intentional", "any-type-intentional" >>, "base-framework")

\* getFalsePositivePatterns of the five frameworks: the base patterns, then their own
getFalsePositivePatterns(frameworkName) ==
    BaseFrameworkPatterns \o
    PatternsOf(
        CASE frameworkName = "nestjs" ->
                << "nestjs-throw-error-with-filter", "nestjs-constructor-di",
                   "nestjs-logger-pattern", "nestjs-circular-dependency",
                   "nestjs-decorator-return" >>
          [] frameworkName = "nextjs" ->
                << "nextjs-server-component-async", "nextjs-use-client-directive",
                   "nextjs-default-export", "nextjs-server-action", "nextjs-image-component" >>
          [] frameworkName = "react" ->
                << "react-empty-deps-array", "react-memo-usage", "react-use-callback",
                   "react-index-key-static", "react-eslint-disable-deps" >>
          [] frameworkName = "express" ->
                << "express-middleware-order", "express-error-handler",
                   "express-async-wrapper", "express-response-json", "express-next-call" >>
          [] OTHER ->
                << "ts-any-intentional", "ts-type-assertion", "ts-empty-catch",
                   "ts-console-cli", "ts-non-null-assertion" >>,
        frameworkName)

\* loadProjectConfig found no file, or none that parses
NoProjectConfig == [found |-> FALSE]

\* a parsed dialectic-pr.json; an absent list is the empty list, and
\* framework_specific maps the frameworks it names to their settings
ProjectConfig(disabled, custom, frameworkSpecific) ==
    [ found |-> TRUE, disabled_builtin_patterns |-> disabled,
      false_positive_patterns |-> custom, framework_specific |-> frameworkSpecific ]

\* the settings of one framework under framework_specific
FrameworkConfig(hasDisabled, disabled, custom) ==
    [ hasDisabled |-> hasDisabled, disabled_builtin_patterns |-> disabled,
      custom_patterns |-> custom ]

getEnabledBuiltinPatterns(projectConfig) ==
    LET disabledIds == IF projectConfig.found THEN projectConfig.disabled_builtin_patterns ELSE << >>
    IN  SelectSeq(BUILTIN_PATTERNS, LAMBDA p : p.id \notin Range(disabledIds))

\* `registered` is the set of names FrameworkRegistry holds
addFrameworkPatterns(patterns, frameworkName, projectConfig, registered) ==
    LET withFramework ==
            IF frameworkName \in registered
            THEN patterns \o getFalsePositivePatterns(frameworkName)
            ELSE patterns
    IN  IF projectConfig.found /\ frameworkName \in DOMAIN projectConfig.framework_specific
        THEN LET frameworkConfig == projectConfig.framework_specific[frameworkName]
                 enabled ==
                    IF frameworkConfig.hasDisabled
                    THEN SelectSeq(withFramework,
                            LAMBDA p : p.id \notin Range(frameworkConfig.disabled_builtin_patterns))
                    ELSE withFramework
             IN  enabled \o frameworkConfig.custom_patterns
        ELSE withFramework

\* ProjectRulesLoader.load: the patterns of the rules it resolves with
loadPatterns(projectConfig, frameworkName, registered) ==
    addFrameworkPatterns(getEnabledBuiltinPatterns(projectConfig), frameworkName, projectConfig, registered)
        \o (IF projectConfig.found THEN projectConfig.false_positive_patterns ELSE << >>)

\* the most ids of a disabled_builtin_patterns list
MaxDisabled == 2

\* ids a project disables: in BUILTIN_PATTERNS and in a framework's list, in
\* BUILTIN_PATTERNS only, in the base framework's list, in the project's own
DisabledIds ==
    { "nestjs-throw-error-with-filter", "prisma-queryraw-safe", "console-log-intentional",
      "project-rule" }

ProjectConfigs ==
    { NoProjectConfig } \cup
    { ProjectConfig(disabled, custom, frameworkSpecific) :
        disabled \in SeqsUpTo(DisabledIds, MaxDisabled),
        custom \in { << >>, PatternsOf(<< "project-rule" >>, "project"),
                     PatternsOf(<< "prisma-queryraw-safe" >>, "project") },
        frameworkSpecific \in
            { << >>,
              [ f \in {"nestjs"} |->
                  FrameworkConfig(TRUE, << "nestjs-constructor-di" >>,
                                  PatternsOf(<< "nestjs-project-rule" >>, "project")) ],
              [ f \in {"react"} |-> FrameworkConfig(FALSE, << >>, << >>) ] } }

InitRules ==
    /\ pull = << >> /\ cli = [entry |-> "review", dryRun |-> FALSE] /\ env = RequiredEnv
    /\ RunIdle
    /\ strategies = DefaultStrategies
    /\ sel = Nil /\ pack = Nil /\ twin = Nil
    /\ \E registered \in { FrameworkNames, {} } :
          call = [op |-> "none", registered |-> registered]

LoadRules ==
    /\ call.op = "none"
    /\ \E projectConfig \in ProjectConfigs, frameworkName \in FrameworkNames :
          call' = [ op |-> "load", registered |-> call.registered, projectConfig |-> projectConfig,
                    frameworkName |-> frameworkName,
                    patterns |-> loadPatterns(projectConfig, frameworkName, call.registered) ]
    /\ UNCHANGED << runVars, strategies, sel, pack, twin >>

NextRules == LoadRules

SpecRules == InitRules /\ [][NextRules]_vars

\* C17: whatever the project configuration and the framework, no pattern
\* whose id the project's disabled_builtin_patterns lists is in the catalog
\* ProjectRulesLoader.load returns.  The list filters BUILTIN_PATTERNS only;
\* the framework's patterns and the project's own are appended after it, some
\* under ids of BUILTIN_PATTERNS, so this does not hold of the code.
C17_DisabledNotInCatalog ==
    (call # Nil /\ call.op = "load" /\ call.projectConfig.found) =>
        \A i \in 1..Len(call.patterns) :
            call.patterns[i].id \notin Range(call.projectConfig.disabled_builtin_patterns)

----------------------------------------------------------------------------
(* SmartFilter.prioritizeFiles, called on a filter with custom rules *)

\* the most custom rules of a filter
MaxCustomRules == 2

\* the most calls of prioritizeFiles on one filter
MaxCalls == 2

PriorityRule(pattern, priority, reason) ==
    [pattern |-> pattern, priority |-> priority, reason |-> reason]

\* custom rules: a substring, a regular expression without flags, one with
\* the global flag, and a substring of paths a built-in rule matches
CustomRules ==
    { PriorityRule(StringPattern("assets"), "high", "Asset"),
      PriorityRule(RxExt({"svg"}), "normal", "Image"),
      PriorityRule(RxGlobal("assets"), "critical", "Asset directory"),
      PriorityRule(StringPattern("auth"), "low", "Custom auth") }

PriorityFile(path) == [path |-> path, content |-> Text("content", 9)]

PriorityFiles ==
    { PriorityFile(<< <<"src">>, <<"users">>, <<"users", "test", "ts">> >>),
      PriorityFile(<< <<"users", "spec", "js">> >>),
      PriorityFile(<< <<"src">>, <<"auth">>, <<"login", "ts">> >>),
      PriorityFile(<< <<"README", "md">> >>),
      PriorityFile(<< <<"assets">>, <<"logo", "png">> >>),
      PriorityFile(<< <<"assets">>, <<"assets">>, <<"icon", "png">> >>),
      PriorityFile(<< <<"docs">>, <<"diagram", "svg">> >>) }

\* the file lists of a call: each file alone, two lists of two, and a list
\* of four with two files of one tier around files of higher tiers
PriorityBatches ==
    { << f >> : f \in PriorityFiles } \cup
    { << PriorityFile(<< <<"README", "md">> >>),
         PriorityFile(<< <<"src">>, <<"auth">>, <<"login", "ts">> >>) >>,
      << PriorityFile(<< <<"assets">>, <<"logo", "png">> >>),
         PriorityFile(<< <<"docs">>, <<"diagram", "svg">> >>) >>,
      << PriorityFile(<< <<"README", "md">> >>),
         PriorityFile(<< <<"users", "spec", "js">> >>),
         PriorityFile(<< <<"docs">>, <<"diagram", "svg">> >>),
         PriorityFile(<< <<"src">>, <<"auth">>, <<"login", "ts">> >>) >> }

InitPrioritize ==
    /\ pull = << >> /\ cli = [entry |-> "review", dryRun |-> FALSE] /\ env = RequiredEnv
    /\ RunIdle
    /\ strategies = DefaultStrategies
    /\ sel = Nil /\ pack = Nil /\ twin = Nil
    /\ \E customRules \in SeqsUpTo(CustomRules, MaxCustomRules) :
          call = [op |-> "new SmartFilter", customRules |-> customRules, calls |-> 0]

PrioritizeFiles ==
    /\ call.op \in {"new SmartFilter", "prioritizeFiles"}
    /\ call.calls < MaxCalls
    /\ \E files \in PriorityBatches :
          LET done == prioritizeFilesFrom(call.customRules, files)
          IN  call' = [ op |-> "prioritizeFiles", customRules |-> done.customRules,
                        calls |-> call.calls + 1, files |-> files, result |-> done.files ]
    /\ UNCHANGED << runVars, strategies, sel, pack, twin >>

NextPrioritize == PrioritizeFiles

SpecPrioritize == InitPrioritize /\ [][NextPrioritize]_vars

\* whether a rule's pattern matches the path: a string by containment, a
\* regular expression by matching the path somewhere
RuleMatches(filePath, pattern) ==
    IF pattern.type = "string" \/ pattern.form = "global"
    THEN IncludesPart(filePath, pattern.token)
    ELSE RegExpTest(pattern, filePath)

\* the rules that match the path, by their places in the list
MatchingRules(filePath, rules) ==
    { j \in 1..Len(rules) : RuleMatches(filePath, rules[j].pattern) }

\* C19: every file prioritizeFiles returns has the tier and the reason of the
\* first rule matching its path, the built-in rules tried before the custom
\* ones, and tier low with reason "Unknown file type" when no rule matches;
\* the tier is one of critical, high, normal and low.  The code tests a rule's
\* regular expression once for the tier and once more for the reason, and a
\* regular expression with the global flag answers the second test from where
\* the first match ended, so this does not hold of the code.
C19_FirstMatchingRule ==
    (call # Nil /\ call.op = "prioritizeFiles") =>
        \A i \in 1..Len(call.result) :
            LET file == call.result[i]
                rules == defaultPriorityRules \o call.customRules
                matching == MatchingRules(file.path, rules)
            IN  /\ file.priority \in {"critical", "high", "normal", "low"}
                /\ IF matching = {}
                   THEN file.priority = "low" /\ file.reason = "Unknown file type"
                   ELSE LET j == CHOOSE j \in matching : \A other \in matching : j <= other
                        IN  /\ file.priority = rules[j].priority
                            /\ file.reason = rules[j].reason

TestExts == {"ts", "tsx", "js", "jsx"}

\* C20: under the default rule list, a path ending in .test. or .spec.
\* followed by ts, tsx, js or jsx is given tier low, with reason "Test file"
\* or "Spec file".  The rules for source and code files stand before those
\* for test and spec files and match these paths first, so this does not
\* hold of the code.
C20_TestFilesAreLow ==
    (call # Nil /\ call.op = "prioritizeFiles" /\ call.customRules = << >>) =>
        \A i \in 1..Len(call.result) :
            LET file == call.result[i]
            IN  /\ HasDoubleExt(file.path, {"test"}, TestExts) =>
                      file.priority = "low" /\ file.reason = "Test file"
                /\ HasDoubleExt(file.path, {"spec"}, TestExts) =>
                      file.priority = "low" /\ file.reason = "Spec file"

\* the bijections of 1..n
Bijections(n) == { p \in [1..n -> 1..n] : \A i, j \in 1..n : p[i] = p[j] => i = j }

\* C21: whatever the files, prioritizeFiles returns a permutation of them, one
\* entry for each with its path and content, in which the tier ranks
\* critical < high < normal < low never decrease and files of one tier stand
\* in the order they had in the input.
C21_StableSortedPermutation ==
    (call # Nil /\ call.op = "prioritizeFiles") =>
        /\ Len(call.result) = Len(call.files)
        /\ \E p \in Bijections(Len(call.files)) :
              /\ \A i \in 1..Len(call.result) :
                    /\ call.result[i].path = call.files[p[i]].path
                    /\ call.result[i].content = call.files[p[i]].content
              /\ \A i, j \in 1..Len(call.result) :
                    i < j =>
                       /\ priorityOrder(call.result[i].priority)
                            <= priorityOrder(call.result[j].priority)
                       /\ call.result[i].priority = call.result[j].priority => p[i] < p[j]

\* a call that moved a file forward past two files of one tier, which kept
\* their order
C21_Witness ==
    /\ call # Nil /\ call.op = "prioritizeFiles"
    /\ Len(call.files) = 4
    /\ call.result[1].path = call.files[4].path
    /\ call.result[3].path = call.files[1].path
    /\ call.result[4].path = call.files[3].path
    /\ call.result[3].priority = call.result[4].priority
    /\ priorityOrder(call.result[1].priority) < priorityOrder(call.result[3].priority)

\* the elements of s at the places in S, in the order of s
AtPlaces(s, S) == SelectSeq([ i \in 1..Len(s) |-> <<i, s[i]>> ], LAMBDA e : e[1] \in S)

\* the places of the files a pass in input order includes, when a file is
\* included exactly if the estimated tokens of the files included before it
\* plus its own are at most the limit
RECURSIVE IncludedPlaces(_, _, _)
IncludedPlaces(files, tokenLimit, n) ==
    IF n = 0 THEN {}
    ELSE LET before == IncludedPlaces(files, tokenLimit, n - 1)
             total == SeqSum([ k \in 1..Len(AtPlaces(files, before)) |->
                                 estimateTokens(AtPlaces(files, before)[k][2].content) ])
         IN  IF total + estimateTokens(files[n].content) <= tokenLimit
             THEN before \cup {n}
             ELSE before

\* C22: truncateToTokenLimit goes through the files in input order and
\* includes a file exactly when the estimated tokens of the files included
\* before it plus its own are at most the limit; a file left out does not
\* keep later files that fit from being included; included and excluded hold
\* every input file once between them, each in input order.
C22_FirstFitInOrder ==
    (pack # Nil /\ pack.called) =>
        LET places == IncludedPlaces(pack.files, pack.tokenLimit, Len(pack.files))
            others == (1..Len(pack.files)) \ places
            Files(at) == [ k \in 1..Len(at) |-> at[k][2] ]
        IN  /\ pack.result.included = Files(AtPlaces(pack.files, places))
            /\ pack.result.excluded = Files(AtPlaces(pack.files, others))

\* a call that left the second file out for overflow and included the third
C22_Witness ==
    /\ pack # Nil /\ pack.called
    /\ Len(pack.files) = 3
    /\ Len(pack.result.included) = 2 /\ Len(pack.result.excluded) = 1
    /\ pack.result.excluded[1] = pack.files[2]
    /\ pack.result.included[2] = pack.files[3]
    /\ pack.files[2] # pack.files[3] /\ pack.files[2] # pack.files[1]
    /\ estimateTokens(pack.files[3].content) > 0

\* C23 as stated: with a limit of 0, truncateToTokenLimit includes no file
\* and every input file is in excluded.  A file of empty content has 0
\* estimated tokens and 0 + 0 <= 0, so the call includes it.
C23_Original ==
    (pack # Nil /\ pack.called /\ pack.tokenLimit = 0) =>
        /\ pack.result.included = << >>
        /\ pack.result.excluded = pack.files

\* C23: with a limit of 0, truncateToTokenLimit returns a result, in which
\* included holds the files of empty content and excluded every file of
\* non-empty content, each in input order.
C23_ZeroLimitKeepsEmptyFiles ==
    (pack # Nil /\ pack.called /\ pack.tokenLimit = 0) =>
        /\ DOMAIN pack.result = {"included", "excluded"}
        /\ pack.result.included = SelectSeq(pack.files, LAMBDA f : f.content.length = 0)
        /\ pack.result.excluded = SelectSeq(pack.files, LAMBDA f : f.content.length > 0)

\* a call with a limit of 0 on a file of empty content and one of a single
\* character
C23_Witness ==
    /\ pack # Nil /\ pack.called /\ pack.tokenLimit = 0
    /\ Len(pack.result.included) >= 1
    /\ \E i \in 1..Len(pack.result.excluded) : pack.result.excluded[i].content.length = 1

\* C24: in every ReviewResult of generateReview, summary.criticalIssues is the
\* number of the result's issues whose type is security or bug, and
\* summary.totalIssues is the number of the result's issues.
C24_SummaryCounts ==
    result # Nil =>
        /\ result.summary.criticalIssues =
              Cardinality({ i \in 1..Len(result.issues) :
                              result.issues[i].type \in {JString("security"), JString("bug")} })
        /\ result.summary.totalIssues = Len(result.issues)

\* a result of two issues, one of them critical
C24_Witness ==
    /\ result # Nil
    /\ Len(result.issues) = 2
    /\ result.summary.criticalIssues = 1
    /\ \E i \in 1..2 : result.issues[i].type = JString("style")

\* C25: a generateReview invocation sends one request to the completion-service
\* adapter, its token ceiling the maxTokens of the selected strategy, and once
\* the response is there no step of the run sends another.
C25_SingleRequest ==
    /\ [](/\ Len(claudeRequests) <= 1
          /\ result # Nil =>
                /\ Len(claudeRequests) = 1
                /\ claudeRequests[1].maxTokens = strategy.maxTokens)
    /\ [][response # Nil => claudeRequests' = claudeRequests]_vars

\* a run that received a response and went on to post its review
C25_Witness ==
    /\ result # Nil /\ response # Nil
    /\ Len(claudeRequests) = 1
    /\ claudeRequests[1].maxTokens = 16000
    /\ pc = "exited" /\ Len(posted) = 1

\* C29: every issue of a ReviewResult of generateReview has a type among bug,
\* security, performance and maintainability and a confidence of high or
\* medium, whatever the response carried in those fields.  parseReviewResponse
\* replaces only falsy values; any other value is kept as it came, so this does
\* not hold of the code.
C29_IssueFieldsInRange ==
    result # Nil =>
        \A i \in 1..Len(result.issues) :
            /\ result.issues[i].type \in
                  { JString("bug"), JString("security"), JString("performance"),
                    JString("maintainability") }
            /\ result.issues[i].confidence \in { JString("high"), JString("medium") }

----------------------------------------------------------------------------
(* RetryHandler *)

\* the options of the handler the adapters construct, over the defaults
RetryOptions(maxRetries) ==
    [ maxRetries |-> maxRetries, initialDelayMs |-> 2000, maxDelayMs |-> 10000,
      backoffMultiplier |-> 2 ]

RECURSIVE Pow(_, _)
Pow(b, e) == IF e = 0 THEN 1 ELSE b * Pow(b, e - 1)

\* Math.min(initialDelayMs * Math.pow(backoffMultiplier, attempt), maxDelayMs)
calculateDelay(options, attempt) ==
    LET delay == options.initialDelayMs * Pow(options.backoffMultiplier, attempt)
    IN  IF delay < options.maxDelayMs THEN delay ELSE options.maxDelayMs

\* what fn rejects with: an error with a statusCode, or one without
StatusError(statusCode) == [ok |-> FALSE, hasStatus |-> TRUE, statusCode |-> statusCode]
PlainError == [ok |-> FALSE, hasStatus |-> FALSE, statusCode |-> 0]

\* what fn resolves with
Resolved(value) == [ok |-> TRUE, value |-> value]

\* the retryableErrors argument: left out, or a list of status codes
NoCodes == [given |-> FALSE, codes |-> << >>]
Codes(list) == [given |-> TRUE, codes |-> list]

isRetryableError_always(err, retryableCodes) == TRUE

isRetryableError(err, retryableCodes) ==
    IF err.hasStatus THEN err.statusCode \in Range(retryableCodes) ELSE FALSE

\* an attempt counter that for (...; attempt++) leaves where it was
nextAttempt_same(attempt) == attempt

\* attempt++
nextAttempt(attempt) == attempt + 1

\* `throw undefined`: lastError of a loop that never ran
Undefined == [ok |-> FALSE, hasStatus |-> FALSE, statusCode |-> -1]

\* the most retries a handler is constructed with
MaxRetries == 3

\* what an invocation of fn settles with in the runs of the model
FnErrors == { StatusError(400), StatusError(429), StatusError(503), PlainError }

RetryableLists == { NoCodes, Codes(<< >>), Codes(<< 429, 500, 502, 503, 504 >>) }

InitRetry ==
    /\ pull = << >> /\ cli = [entry |-> "review", dryRun |-> FALSE] /\ env = RequiredEnv
    /\ RunIdle
    /\ strategies = DefaultStrategies
    /\ sel = Nil /\ pack = Nil /\ twin = Nil
    /\ \E maxRetries \in (-1)..MaxRetries :
          call = [op |-> "new RetryHandler", options |-> RetryOptions(maxRetries)]

\* execute(fn, retryableErrors) up to its first await
Execute ==
    /\ call.op = "new RetryHandler"
    /\ \E retryableErrors \in RetryableLists :
          call' = [ op |-> "execute", options |-> call.options,
                    retryableErrors |-> retryableErrors,
                    attempt |-> 0, outcomes |-> << >>, delays |-> << >>,
                    at |-> IF 0 <= call.options.maxRetries THEN "fn" ELSE "threw",
                    settled |-> Undefined ]
    /\ UNCHANGED << runVars, strategies, sel, pack, twin >>

\* await fn() settles: the return, or the catch block up to throw or sleep
FnSettles ==
    /\ call.op = "execute" /\ call.at = "fn"
    /\ \E outcome \in FnErrors \cup { Resolved(Len(call.outcomes) + 1) } :
          LET invoked == [call EXCEPT !.outcomes = Append(@, outcome)]
          IN  call' =
                IF outcome.ok
                THEN [invoked EXCEPT !.at = "returned", !.settled = outcome]
                ELSE IF call.attempt = call.options.maxRetries
                THEN [invoked EXCEPT !.at = "threw", !.settled = outcome]
                ELSE IF call.retryableErrors.given
                        /\ ~isRetryableError(outcome, call.retryableErrors.codes)
                THEN [invoked EXCEPT !.at = "threw", !.settled = outcome]
                ELSE [invoked EXCEPT !.at = "sleep",
                         !.delays = Append(@, calculateDelay(call.options, call.attempt))]
    /\ UNCHANGED << runVars, strategies, sel, pack, twin >>

\* await this.sleep(delay) ends: attempt++ and the test of the loop
SleepEnds ==
    /\ call.op = "execute" /\ call.at = "sleep"
    /\ call' = [call EXCEPT !.attempt = nextAttempt(call.attempt),
                            !.at = IF nextAttempt(call.attempt) <= call.options.maxRetries
                                   THEN "fn" ELSE "threw"]
    /\ UNCHANGED << runVars, strategies, sel, pack, twin >>

NextRetry == Execute \/ FnSettles \/ SleepEnds

\* fn's promise settles and the timer of sleep fires
SpecRetry ==
    /\ InitRetry /\ [][NextRetry]_vars
    /\ WF_vars(Execute) /\ WF_vars(FnSettles) /\ WF_vars(SleepEnds)

Executing == call # Nil /\ call.op = "execute"

\* the invocations of fn so far all rejected
AllRejected(outcomes) == \A i \in 1..Len(outcomes) : ~outcomes[i].ok

\* C26: execute(fn, codes) comes to an end, having invoked fn at most
\* maxRetries + 1 times; it returns what the first invocation that resolved
\* resolved with and does not invoke fn again; when maxRetries + 1 invocations
\* rejected it throws the error of the last.
C26_BoundedRetries ==
    /\ [](Executing =>
            /\ Len(call.outcomes) <= call.options.maxRetries + 1
            /\ AllRejected(SubSeq(call.outcomes, 1, Len(call.outcomes) - 1))
            /\ (call.outcomes # << >> /\ Last(call.outcomes).ok) =>
                  /\ call.at = "returned"
                  /\ call.settled = Last(call.outcomes)
                  /\ call.settled.value = Len(call.outcomes)
            /\ (AllRejected(call.outcomes) /\ call.outcomes # << >>
                  /\ Len(call.outcomes) = call.options.maxRetries + 1) =>
                  /\ call.at = "threw"
                  /\ call.settled = Last(call.outcomes))
    /\ [][(Executing /\ call.at \in {"returned", "threw"}) => call' = call]_vars
    /\ <>(Executing /\ call.at \in {"returned", "threw"})

\* an execute that threw the error of its last invocation after maxRetries
\* retries, each of them after a wait
C26_Witness ==
    /\ Executing /\ call.at = "threw"
    /\ call.options.maxRetries = 3
    /\ Len(call.outcomes) = 4
    /\ call.settled = StatusError(503)
    /\ call.delays = << 2000, 4000, 8000 >>

\* an invocation rejected, a list of status codes was given, and the error's
\* status code is not in the list
RejectedOutsideList(i) ==
    /\ call.retryableErrors.given
    /\ ~call.outcomes[i].ok
    /\ ~(call.outcomes[i].hasStatus
           /\ call.outcomes[i].statusCode \in Range(call.retryableErrors.codes))

\* C27: with a list of retryable status codes given, an invocation of fn that
\* rejects with an error whose status code is not in the list makes execute
\* throw that error at once, with no further invocation and no wait; an
\* invocation is followed by another only when its error's status code is in
\* the list.
C27_NonRetryableThrowsAtOnce ==
    Executing =>
        \A i \in 1..Len(call.outcomes) :
            RejectedOutsideList(i) =>
                /\ i = Len(call.outcomes)
                /\ call.at = "threw"
                /\ call.settled = call.outcomes[i]
                /\ Len(call.delays) = i - 1

\* an execute with the adapter's list that retried a 429 and threw a 400
C27_Witness ==
    /\ Executing /\ call.at = "threw"
    /\ call.retryableErrors = Codes(<< 429, 500, 502, 503, 504 >>)
    /\ call.outcomes = << StatusError(429), StatusError(400) >>
    /\ call.settled = StatusError(400)
    /\ call.delays = << 2000 >>
    /\ call.options.maxRetries = 3

----
\* PatternMatcher.filterIssues, called again on the same matcher

\* the most calls of filterIssues on one matcher
MaxFilterCalls == 3

\* patterns of a catalog handed to new PatternMatcher(patterns): a content
\* matcher is a RegExp, with or without the global flag
RefilterPatterns ==
    { FalsePositivePattern("plain", << << "A", " ", "b" >>, << "c" >> >>, NoRegExp, NoContext),
      FalsePositivePattern("prisma", << << "x" >>, << "c" >>, << "d" >>, << "e" >> >>,
                           RegExpOf(<< "$" >>), NoContext),
      FalsePositivePattern("prisma_global", << << "x" >>, << "c" >>, << "d" >>, << "e" >> >>,
                           RegExpGlobal(<< "$" >>), NoContext) }

RefilterContentMaps ==
    FileContentMaps \cup
        { [defined |-> TRUE, map |-> [f \in {"a.ts"} |-> << "$", "q", "$" >>]] }

\* new PatternMatcher(patterns)
InitRefilter ==
    /\ pull = << >> /\ cli = [entry |-> "review", dryRun |-> FALSE] /\ env = RequiredEnv
    /\ RunIdle
    /\ strategies = DefaultStrategies
    /\ sel = Nil /\ pack = Nil /\ twin = Nil
    /\ \E patterns \in SeqsUpTo(RefilterPatterns, MaxCatalog) :
          call = [op |-> "new PatternMatcher", catalog |-> patterns, patterns |-> patterns]

\* the first filterIssues(issues, fileContents) on the matcher
FilterIssuesFirst ==
    /\ call.op = "new PatternMatcher"
    /\ \E issues \in SeqsUpTo(MatcherIssues, MaxIssues), fileContents \in RefilterContentMaps :
          call' = [ op |-> "filterIssues", catalog |-> call.catalog,
                    patterns |-> patternsAfterFilter(call.patterns, issues, fileContents),
                    issues |-> issues, fileContents |-> fileContents,
                    results |-> << filterIssues(call.patterns, issues, fileContents) >> ]
    /\ UNCHANGED << runVars, strategies, sel, pack, twin >>

\* filterIssues on the same matcher with the same issues and file contents
FilterIssuesAgain ==
    /\ call.op = "filterIssues"
    /\ Len(call.results) < MaxFilterCalls
    /\ call' = [ call EXCEPT
                   !.patterns = patternsAfterFilter(call.patterns, call.issues, call.fileContents),
                   !.results = Append(@, filterIssues(call.patterns, call.issues,
                                                      call.fileContents)) ]
    /\ UNCHANGED << runVars, strategies, sel, pack, twin >>

NextRefilter == FilterIssuesFirst \/ FilterIssuesAgain

SpecRefilter == InitRefilter /\ [][NextRefilter]_vars

\* the partition a result of filterIssues makes of the issues
PartitionOf(filterResult) ==
    [ filtered |-> filterResult.filtered,
      removed |-> [ i \in 1..Len(filterResult.removed) |-> filterResult.removed[i].issue ] ]

\* C28: every filterIssues call with the same issues, file contents and
\* catalog returns the partition the first call returned, and a call leaves
\* the patterns of the matcher as they were constructed
C28_SamePartitionEachCall ==
    call.op = "filterIssues" =>
        /\ \A i \in 1..Len(call.results) :
              PartitionOf(call.results[i]) = PartitionOf(call.results[1])
        /\ call.patterns = call.catalog

----
\* PRAnalyzer.detectContextFlags on the files that remain after exclusion

\* C30: configOnly is true only when the list of files remaining after
\* exclusion is non-empty and all its paths are config files; a change whose
\* files are all excluded does not take the config-only path of select
C30_ConfigOnlyNeedsFiles ==
    analysis # Nil =>
        /\ analysis.context.flags.configOnly =>
              /\ analysis.changedFiles # << >>
              /\ \A i \in 1..Len(analysis.changedFiles) : isConfigFile(analysis.changedFiles[i])
        /\ (analysis.changedFiles = << >> /\ strategy # Nil) =>
              strategy.instructions # "Quick review of configuration changes only."
====
